---- MODULE Spec2Model ----
(***************************************************************************)
(* A model of darktable's filmic rgb module (src/iop/filmicrgb.c): the     *)
(* clip mask, the wavelet highlight reconstruction, the tone-mapping       *)
(* kernels, the spline solver and commit_params.                          *)
(*                                                                         *)
(* Numbers.  A C float is modelled by a fixed-point integer: the float v   *)
(* is the integer v * Unit, Unit = 2^FracBits; products and quotients are  *)
(* cut towards zero to a multiple of 1/Unit.  Buffers are                   *)
(* functions over 0 .. n-1, indexed as the C arrays are.                   *)
(***************************************************************************)
EXTENDS Integers, Sequences, FiniteSets, TLC

\* ------------------------------------------------------------------ bounds
\* fraction bits of the fixed-point numbers
FracBits == 16
\* region of interest of the render (roi_out->width, roi_out->height)
Width == 4
Height == 3
\* largest number of wavelet scales the renders of the model ask for
MaxScales == 2
\* widths of the scaled-down size_t and int of the blur indices
SizeTBits == 28
IntBits == 20
\* image sizes whose every position is sampled by the blur taps
MaxBlurSize == 20
\* region of the stage-by-stage interleaving model
ParWidth == 2
ParHeight == 2

Unit == 2 ^ FracBits

\* --------------------------------------------------------- fixed point
Abs(a) == IF a < 0 THEN -a ELSE a
Sgn(a) == IF a < 0 THEN -1 ELSE 1
Max(a, b) == IF a > b THEN a ELSE b
Min(a, b) == IF a < b THEN a ELSE b

\* Unit = LimbHi * LimbLo: the fraction of a number is cut in two limbs so that
\* no intermediate of a product exceeds 31 bits
LimbLo == 2 ^ (FracBits \div 2)
LimbHi == Unit \div LimbLo

\* (xm * LimbLo + xl) * (ym * LimbLo + yl) / Unit, cut to a multiple of 1/Unit
MulLimbs(xm, xl, ym, yl) ==
  (xm * ym * LimbLo + xm * yl + xl * ym + (xl * yl) \div LimbLo) \div LimbHi

\* the product of two fractions xf, yf in [0, 1)
MulFrac(xf, yf) == MulLimbs(xf \div LimbLo, xf % LimbLo, yf \div LimbLo, yf % LimbLo)

\* (xi + xf) * (yi + yf) for integer parts xi, yi and fractions xf, yf
MulParts(xi, xf, yi, yf) == xi * yi * Unit + xi * yf + xf * yi + MulFrac(xf, yf)

MulAbs(x, y) == MulParts(x \div Unit, x % Unit, y \div Unit, y % Unit)

\* a * b on floats: the exact product cut to a multiple of 1/Unit; like the
\* float product it is symmetric in the signs, (-a) * b = -(a * b)
Mul(a, b) == Sgn(a) * Sgn(b) * MulAbs(Abs(a), Abs(b))

\* the FracBits fraction bits of r / d (r < d), by long division
RECURSIVE DivBits(_, _, _, _)
DivBits(r, d, q, n) ==
  IF n = 0 THEN q
  ELSE IF 2 * r >= d THEN DivBits(2 * r - d, d, 2 * q + 1, n - 1)
                     ELSE DivBits(2 * r, d, 2 * q, n - 1)

DivAbs(x, y) == (x \div y) * Unit + DivBits(x % y, y, 0, FracBits)

\* a / b on floats (b # 0), cut to a multiple of 1/Unit, symmetric in the signs
Div(a, b) == Sgn(a) * Sgn(b) * DivAbs(Abs(a), Abs(b))

\* sqrtf: the largest multiple r of 1/Unit with r * r <= a (a >= 0)
RECURSIVE SqrtBits(_, _, _)
SqrtBits(a, r, bit) ==
  IF bit = 0 THEN r
  ELSE IF Mul(r + bit, r + bit) <= a THEN SqrtBits(a, r + bit, bit \div 2)
                                     ELSE SqrtBits(a, r, bit \div 2)

sqrtf(a) == IF a <= 0 THEN 0 ELSE SqrtBits(a, 0, 2 ^ (FracBits + (30 - FracBits) \div 2 - 1))

\* fabsf, fmaxf, fminf
fabsf(a) == Abs(a)
fmaxf(a, b) == Max(a, b)
fminf(a, b) == Min(a, b)

\* ---------------------------------------------------- log2f, exp2f, powf
\* the exponent n of x = m * 2^n with m in [1, 2)  (x > 0)
RECURSIVE Exponent(_)
Exponent(x) ==
  IF x >= 2 * Unit THEN 1 + Exponent(x \div 2)
  ELSE IF x < Unit THEN Exponent(2 * x) - 1
  ELSE 0

\* the fraction bits of log2(m), m in [1, 2), by repeated squaring; bit is the
\* weight of the bit being decided and q the square of m
RECURSIVE Log2Bits(_, _)
RECURSIVE Log2Step(_, _)
Log2Step(q, bit) ==
  IF q >= 2 * Unit THEN bit + Log2Bits(q \div 2, bit \div 2)
                   ELSE Log2Bits(q, bit \div 2)

Log2Bits(m, bit) == IF bit = 0 THEN 0 ELSE Log2Step(Mul(m, m), bit)

\* log2 of x = m * 2^n
Log2Of(x, n) ==
  n * Unit + Log2Bits(IF n >= 0 THEN x \div (2 ^ n) ELSE x * (2 ^ (-n)), Unit \div 2)

\* log2f(x), x > 0
log2f(x) == Log2Of(x, Exponent(x))

\* 2^(2^-i), i = 1 .. FracBits: the successive square roots of 2
RECURSIVE Root2(_)
Root2(i) == IF i = 0 THEN 2 * Unit ELSE sqrtf(Root2(i - 1))

Root2Table == [i \in 1 .. FracBits |-> Root2(i)]

\* 2^f for the fraction f in [0, 1): the product of the roots of its set bits
RECURSIVE Exp2Bits(_, _, _)
Exp2Bits(f, i, acc) ==
  IF i > FracBits THEN acc
  ELSE IF (f \div (2 ^ (FracBits - i))) % 2 = 1
         THEN Exp2Bits(f, i + 1, Mul(acc, Root2Table[i]))
         ELSE Exp2Bits(f, i + 1, acc)

\* the largest exponent whose power of two is representable: above it exp2f
\* overflows to +infinity, modelled by the largest power
ExpMax == 29 - FracBits

\* floorf(x) as an integer
FloorInt(x) == IF x >= 0 THEN x \div Unit ELSE -((-x + Unit - 1) \div Unit)

\* 2^(n + f) for the integer n and the fraction f
Exp2Of(n, f) ==
  IF n > ExpMax THEN 2 ^ ExpMax * Unit
  ELSE IF n >= 0 THEN Exp2Bits(f, 1, Unit) * 2 ^ n
  ELSE IF -n > 30 THEN 0
  ELSE Exp2Bits(f, 1, Unit) \div (2 ^ (-n))

Exp2Split(x, n) == Exp2Of(n, x - n * Unit)

\* exp2f(x)
exp2f(x) == Exp2Split(x, FloorInt(x))

\* powf(x, y) for x >= 0: 0 for x = 0, else 2^(y * log2 x)
powf(x, y) == IF x <= 0 THEN 0 ELSE exp2f(Mul(y, log2f(x)))

\* expf(x) = 2^(x * log2 e)
expf(x) == exp2f(Mul(x, (14427 * Unit) \div 10000))

\* ------------------------------------------------------ small helpers (C)
clamp_simd(x) == fminf(fmaxf(x, 0), Unit)
sqf(x) == Mul(x, x)
fmaxabsf(a, b) == IF fabsf(a) > fabsf(b) THEN a ELSE b
fminabsf(a, b) == IF fabsf(a) < fabsf(b) THEN a ELSE b

\* the float 2^-16 = 1.52587890625e-05f, the floor of norms and log arguments
NormFloor == Max(1, Unit \div (2 ^ 16))

MAX_NUM_SCALES == 12
fsize == 5
\* number of channels of a pixel (const size_t ch = 4 in process)
ch == 4

\* filter[jj] = { 1, 4, 6, 4, 1 } / 16
filter(jj) == (<<1, 4, 6, 4, 1>>[jj + 1] * Unit) \div 16

\* the pixel indices of a w x h region, and the sequential order of a loop
Pixels(w, h) == 0 .. (w * h - 1)

\* ------------------------------------------------- mask_clipped_pixels
\* the sigmoid argument of the pixel at k = p * ch
MaskArgument(in, normalize, feathering, p) ==
  LET k == p * ch
      pix_max == sqrtf(sqf(in[k]) + sqf(in[k + 1]) + sqf(in[k + 2]))
  IN  Mul(-pix_max, normalize) + feathering

MaskWeight(argument) == Div(Unit, Unit + exp2f(argument))

\* clipped += (4.f > argument)
ClippedIncrement(argument) == IF 4 * Unit > argument THEN 1 ELSE 0

\* one iteration of the loop: mask[k / ch] = weight
MaskIter(in, mask, normalize, feathering, p) ==
  [mask EXCEPT ![p] = MaskWeight(MaskArgument(in, normalize, feathering, p))]

RECURSIVE MaskLoop(_, _, _, _, _, _)
MaskLoop(in, mask, normalize, feathering, p, n) ==
  IF p = n THEN mask
  ELSE MaskLoop(in, MaskIter(in, mask, normalize, feathering, p),
                normalize, feathering, p + 1, n)

RECURSIVE ClippedCount(_, _, _, _, _)
ClippedCount(in, normalize, feathering, p, n) ==
  IF p = n THEN 0
  ELSE ClippedIncrement(MaskArgument(in, normalize, feathering, p))
       + ClippedCount(in, normalize, feathering, p + 1, n)

\* the return with the threshold off by one
RecoverThresholdAboveTen(clipped) == clipped > 10

\* return (clipped > 9)
RecoverThreshold(clipped) == clipped > 9

\* ------------------------------------------------------ B-spline blur
\* size_t and int: unsigned arithmetic wraps modulo 2^SizeTBits and the
\* conversion to int keeps the low IntBits bits as a two's complement number.
\* The widths are scaled down from 64 and 32 bits, every size, position and
\* offset of the model staying below 2^(IntBits - 1).
SizeT(x) == x % (2 ^ SizeTBits)

\* the bits of the low half of a size_t
HalfBits == SizeTBits \div 2

\* a * b in size_t for a small factor a (2 or mult): the product is taken on
\* the two halves of b, which keeps every intermediate within the integers
SizeMul(a, b) ==
  (((a * (b \div 2 ^ HalfBits)) % 2 ^ (SizeTBits - HalfBits)) * 2 ^ HalfBits
   + a * (b % 2 ^ HalfBits)) % 2 ^ SizeTBits

\* the low bits an int keeps, read as an unsigned number
ToIntUnsigned(x) == x % (2 ^ IntBits)

\* (int)x for a size_t x: the low bits read as a two's complement number
ToInt(x) ==
  IF x % 2 ^ IntBits >= 2 ^ (IntBits - 1) THEN (x % 2 ^ IntBits) - 2 ^ IntBits
  ELSE x % 2 ^ IntBits

\* check = !((j > 2 * mult) && (j < width - 2 * mult)), in size_t arithmetic:
\* width - 2 * mult wraps to a huge value when 2 * mult > width
BoundCheck(j, width, mult) ==
  ~((j > SizeMul(2, mult)) /\ (j < (width - SizeMul(2, mult)) % 2 ^ SizeTBits))

\* index on the checked path: mult * (jj - (fsize - 1) / 2) + j, clamped
ClampIndex(x, lo, hi) == IF x < lo THEN lo ELSE IF x > hi THEN hi ELSE x

\* mult * (jj - (fsize - 1) / 2) + j in size_t: jj - 2 wraps for jj < 2
TapSum(j, jj, mult) == (SizeMul(mult, SizeT(jj - (fsize - 1) \div 2)) + j) % 2 ^ SizeTBits

\* int index_x = ..., clamped, on the checked path; size_t index_x on the other
TapIndex(j, jj, width, mult, lo, hi) ==
  IF BoundCheck(j, width, mult) THEN ClampIndex(ToInt(TapSum(j, jj, mult)), lo, hi)
  ELSE TapSum(j, jj, mult)

\* accumulator[c] of blur_2D_Bspline_vertical at pixel (i, j): taps along j
BlurVAcc(in, width, mult, lo, hi, i, j, c) ==
  LET t(jj) == Mul(filter(jj), in[(i * width + TapIndex(j, jj, width, mult, lo, hi)) * ch + c])
  IN  t(0) + t(1) + t(2) + t(3) + t(4)

\* accumulator[c] of blur_2D_Bspline_horizontal at pixel (i, j): taps along i
BlurHAcc(in, width, height, mult, lo, hi, i, j, c) ==
  LET t(ii) == Mul(filter(ii), in[(TapIndex(i, ii, height, mult, lo, hi) * width + j) * ch + c])
  IN  t(0) + t(1) + t(2) + t(3) + t(4)

\* the channels the two passes store: c < 3, and c < ch with accumulator[3] = 0
BlurVIter(in, out, width, mult, lo, hi, p) ==
  [k \in DOMAIN out |->
     IF k \div ch = p /\ k % ch < 3
       THEN BlurVAcc(in, width, mult, lo, hi, p \div width, p % width, k % ch)
       ELSE out[k]]

BlurHIter(in, out, width, height, mult, lo, hi, p) ==
  [k \in DOMAIN out |->
     IF k \div ch = p
       THEN IF k % ch < 3
              THEN BlurHAcc(in, width, height, mult, lo, hi, p \div width, p % width, k % ch)
              ELSE 0
       ELSE out[k]]

RECURSIVE BlurVLoop(_, _, _, _, _, _, _, _)
BlurVLoop(in, out, width, mult, lo, hi, p, n) ==
  IF p = n THEN out
  ELSE BlurVLoop(in, BlurVIter(in, out, width, mult, lo, hi, p), width, mult, lo, hi, p + 1, n)

RECURSIVE BlurHLoop(_, _, _, _, _, _, _, _, _)
BlurHLoop(in, out, width, height, mult, lo, hi, p, n) ==
  IF p = n THEN out
  ELSE BlurHLoop(in, BlurHIter(in, out, width, height, mult, lo, hi, p),
                 width, height, mult, lo, hi, p + 1, n)

blur_2D_Bspline_vertical(in, out, width, height, mult, bound_left, bound_right) ==
  BlurVLoop(in, out, width, mult, bound_left, bound_right, 0, width * height)

blur_2D_Bspline_horizontal(in, out, width, height, mult, bound_top, bound_bot) ==
  BlurHLoop(in, out, width, height, mult, bound_top, bound_bot, 0, width * height)
\* ------------------------------------------------------ init_reconstruct
\* one iteration k of the loop over all height * width * ch elements
InitReconstructIter(in, mask, reconstructed, k) ==
  [reconstructed EXCEPT ![k] = Mul(in[k], Unit - mask[k \div ch])]

RECURSIVE InitReconstructLoop(_, _, _, _, _)
InitReconstructLoop(in, mask, reconstructed, k, n) ==
  IF k = n THEN reconstructed
  ELSE InitReconstructLoop(in, mask, InitReconstructIter(in, mask, reconstructed, k), k + 1, n)

init_reconstruct(in, mask, reconstructed, width, height) ==
  InitReconstructLoop(in, mask, reconstructed, 0, width * height * ch)

\* ------------------------------------------- wavelets_detail_level_*
\* HF[k + c] = detail[k + c] - LF[k + c], c < 3
DetailHFIter(detail, LF, HF, p) ==
  [k \in DOMAIN HF |->
     IF k \div ch = p /\ k % ch < 3 THEN detail[k] - LF[k] ELSE HF[k]]

\* texture[k / ch] from the HF just stored: variant 0 (RGB) and variant 1 (ratios)
TextureRGB(HF, p) == fmaxabsf(fmaxabsf(HF[p * ch], HF[p * ch + 1]), HF[p * ch + 2])
TextureRatios(HF, p) == fminabsf(fminabsf(HF[p * ch], HF[p * ch + 1]), HF[p * ch + 2])

DetailTextureIter(HF, texture, variant, p) ==
  [texture EXCEPT ![p] = IF variant = 0 THEN TextureRGB(HF, p) ELSE TextureRatios(HF, p)]

\* the loop stores into two buffers; the pair <<HF, texture>> is its result
RECURSIVE DetailLoop(_, _, _, _, _, _, _)
DetailLoop(detail, LF, HF, texture, variant, p, n) ==
  IF p = n THEN <<HF, texture>>
  ELSE LET hf == DetailHFIter(detail, LF, HF, p)
       IN  DetailLoop(detail, LF, hf, DetailTextureIter(hf, texture, variant, p), variant, p + 1, n)

wavelets_detail_level(detail, LF, HF, texture, variant, width, height) ==
  DetailLoop(detail, LF, HF, texture, variant, 0, width * height)

\* ------------------------------------------- wavelets_reconstruct_*
\* the weights of a pass: gamma, beta, delta (data->reconstruct_*), scales
GreyDetails(HF, p, gamma_comp) ==
  Mul(gamma_comp, fmaxabsf(fmaxabsf(HF[p * ch], HF[p * ch + 1]), HF[p * ch + 2]))

\* grey_residual: fminf of the LF channels in wavelets_reconstruct_RGB,
\* fmaxf of them in wavelets_reconstruct_ratios
GreyResidualRGBMax(LF, p, beta_comp) ==
  Mul(beta_comp, fmaxf(fmaxf(LF[p * ch], LF[p * ch + 1]), LF[p * ch + 2]))
GreyResidualRGB(LF, p, beta_comp) ==
  Mul(beta_comp, fminf(fminf(LF[p * ch], LF[p * ch + 1]), LF[p * ch + 2]))
GreyResidualRatios(LF, p, beta_comp) ==
  Mul(beta_comp, fmaxf(fmaxf(LF[p * ch], LF[p * ch + 1]), LF[p * ch + 2]))

\* delta * (grey_HF + color_details) + (grey_residual + color_residual) / scales
ReconstructDelta(HF, LF, texture, variant, wts, scales, p, c) ==
  LET gamma == wts.gamma
      gamma_comp == Unit - wts.gamma
      beta == wts.beta
      beta_comp == Unit - wts.beta
      delta == wts.delta
      grey_texture == Mul(gamma, texture[p])
      grey_details == GreyDetails(HF, p, gamma_comp)
      grey_HF == Mul(beta_comp, grey_details + grey_texture)
      grey_residual == IF variant = 0 THEN GreyResidualRGB(LF, p, beta_comp)
                                      ELSE GreyResidualRatios(LF, p, beta_comp)
      color_residual == Mul(LF[p * ch + c], beta)
      color_details == Mul(Mul(HF[p * ch + c], beta), gamma_comp)
  IN  Mul(delta, grey_HF + color_details) + Div(grey_residual + color_residual, scales * Unit)

\* the term added without the opacity of the mask
ReconstructTermUnmasked(HF, LF, texture, mask, variant, wts, scales, p, c) ==
  ReconstructDelta(HF, LF, texture, variant, wts, scales, p, c)

\* the term added to reconstructed[k + c]: alpha * (...), alpha = mask[k / ch]
ReconstructTerm(HF, LF, texture, mask, variant, wts, scales, p, c) ==
  Mul(mask[p], ReconstructDelta(HF, LF, texture, variant, wts, scales, p, c))

ReconstructIter(HF, LF, texture, mask, reconstructed, variant, wts, scales, p) ==
  [k \in DOMAIN reconstructed |->
     IF k \div ch = p /\ k % ch < 3
       THEN reconstructed[k] + ReconstructTerm(HF, LF, texture, mask, variant, wts, scales, p, k % ch)
       ELSE reconstructed[k]]

RECURSIVE ReconstructLoop(_, _, _, _, _, _, _, _, _, _)
ReconstructLoop(HF, LF, texture, mask, reconstructed, variant, wts, scales, p, n) ==
  IF p = n THEN reconstructed
  ELSE ReconstructLoop(HF, LF, texture, mask,
                       ReconstructIter(HF, LF, texture, mask, reconstructed, variant, wts, scales, p),
                       variant, wts, scales, p + 1, n)

wavelets_reconstruct(HF, LF, texture, mask, reconstructed, variant, wts, scales, width, height) ==
  ReconstructLoop(HF, LF, texture, mask, reconstructed, variant, wts, scales, 0, width * height)

\* ------------------------------------------------------------ get_scales
\* floorf(log2f(x)) of a positive rational x = num / den
RECURSIVE FloorLog2(_, _)
FloorLog2(num, den) ==
  IF num >= 2 * den THEN 1 + FloorLog2(num, 2 * den)
  ELSE IF num < den THEN FloorLog2(2 * num, den) - 1
  ELSE 0

\* the scales without the CLAMP
get_scales_unclamped(size, scaleNum, scaleDen) ==
  LET num == 2 * size * scaleNum - (fsize - 1) * fsize * scaleDen
      den == (fsize - 1) * fsize * scaleDen
  IN  IF num <= 0 THEN {-(2 ^ 30)} ELSE {FloorLog2(num, den)}

\* size = MAX(buf_in.height, buf_in.width) * iscale, scale = roi_in->scale / iscale
\* given as the fraction scaleNum / scaleDen; the argument of log2f is
\* 2 * size * scale / ((fsize - 1) * fsize) - 1.  The result is the set of values
\* the call can return: when the argument is not positive log2f gives -inf or
\* NaN, its conversion to int is undefined, and CLAMP brings whatever int comes
\* out into 1 .. MAX_NUM_SCALES
get_scales(size, scaleNum, scaleDen) ==
  LET num == 2 * size * scaleNum - (fsize - 1) * fsize * scaleDen
      den == (fsize - 1) * fsize * scaleDen
      scales == FloorLog2(num, den)
  IN  IF num <= 0 THEN 1 .. MAX_NUM_SCALES
      ELSE IF scales < 1 THEN {1}
      ELSE IF scales > MAX_NUM_SCALES THEN {MAX_NUM_SCALES}
      ELSE {scales}

\* ------------------------------------------------------------ enumerations
DT_FILMIC_METHOD_NONE == 0
DT_FILMIC_METHOD_MAX_RGB == 1
DT_FILMIC_METHOD_LUMINANCE == 2
DT_FILMIC_METHOD_POWER_NORM == 3
DT_FILMIC_CURVE_POLY_4 == 0
DT_FILMIC_CURVE_POLY_3 == 1
DT_FILMIC_COLORSCIENCE_V1 == 0
DT_FILMIC_COLORSCIENCE_V2 == 1

\* a decimal constant n / 10^4 as a float
Dec4(n) == IF n >= 0 THEN (n * (Unit \div 16)) \div 625
                     ELSE -(((-n) * (Unit \div 16)) \div 625)

\* --------------------------------------------------------- colour norms
\* the power norm of the signed channels
pixel_rgb_norm_power_signed(pixel) ==
  LET sq(c) == Mul(pixel[c], pixel[c])
      cu(c) == Mul(sq(c), pixel[c])
  IN  Div(cu(1) + cu(2) + cu(3), fmaxf(sq(1) + sq(2) + sq(3), 1))

\* pixel_rgb_norm_power: sum |c|^3 / max(sum |c|^2, 1e-12)
pixel_rgb_norm_power(pixel) ==
  LET v(c) == fabsf(pixel[c])
      sq(c) == Mul(v(c), v(c))
      cu(c) == Mul(sq(c), v(c))
      numerator == cu(1) + cu(2) + cu(3)
      denominator == sq(1) + sq(2) + sq(3)
  IN  Div(numerator, fmaxf(denominator, 1))

\* the luminance of the work profile (matrix row Y of a linear profile) and
\* dt_camera_rgb_luminance, the fallback without a profile
dt_ioppr_get_rgb_matrix_luminance(pixel) ==
  Mul(Dec4(2627), pixel[1]) + Mul(Dec4(6780), pixel[2]) + Mul(Dec4(593), pixel[3])

dt_camera_rgb_luminance(pixel) ==
  Mul(Dec4(2225), pixel[1]) + Mul(Dec4(7169), pixel[2]) + Mul(Dec4(606), pixel[3])

Luminance(pixel, work_profile) ==
  IF work_profile THEN dt_ioppr_get_rgb_matrix_luminance(pixel)
                  ELSE dt_camera_rgb_luminance(pixel)

\* get_pixel_norm(pixel, variant, work_profile); pixel is <<R, G, B>>
get_pixel_norm(pixel, variant, work_profile) ==
  CASE variant = DT_FILMIC_METHOD_MAX_RGB -> fmaxf(fmaxf(pixel[1], pixel[2]), pixel[3])
    [] variant = DT_FILMIC_METHOD_LUMINANCE -> Luminance(pixel, work_profile)
    [] variant = DT_FILMIC_METHOD_POWER_NORM -> pixel_rgb_norm_power(pixel)
    [] OTHER -> Luminance(pixel, work_profile)

\* norm = (norm < 2^-16) ? 2^-16 : norm
FloorNorm(norm) == IF norm < NormFloor THEN NormFloor ELSE norm

\* the pixel at index p of a 4-channel buffer, as <<R, G, B>>
PixelAt(buf, p) == <<buf[p * ch], buf[p * ch + 1], buf[p * ch + 2]>>

\* ------------------------------------------- compute_ratios, restore_ratios
ComputeRatiosNormIter(in, norms, variant, work_profile, p) ==
  [norms EXCEPT ![p] = FloorNorm(get_pixel_norm(PixelAt(in, p), variant, work_profile))]

\* ratios[k + c] = in[k + c] / norm, c < 3
ComputeRatiosIter(in, norms, ratios, p) ==
  [k \in DOMAIN ratios |->
     IF k \div ch = p /\ k % ch < 3 THEN Div(in[k], norms[p]) ELSE ratios[k]]

RECURSIVE ComputeRatiosLoop(_, _, _, _, _, _, _)
ComputeRatiosLoop(in, norms, ratios, variant, work_profile, p, n) ==
  IF p = n THEN <<norms, ratios>>
  ELSE LET nn == ComputeRatiosNormIter(in, norms, variant, work_profile, p)
       IN  ComputeRatiosLoop(in, nn, ComputeRatiosIter(in, nn, ratios, p),
                             variant, work_profile, p + 1, n)

compute_ratios(in, norms, ratios, variant, work_profile, width, height) ==
  ComputeRatiosLoop(in, norms, ratios, variant, work_profile, 0, width * height)

\* the ratios left as they are
RestoreRatiosIterUnscaled(ratios, norms, p) == ratios

\* ratios[k + c] *= norms[k / ch], c < 3
RestoreRatiosIter(ratios, norms, p) ==
  [k \in DOMAIN ratios |->
     IF k \div ch = p /\ k % ch < 3 THEN Mul(ratios[k], norms[p]) ELSE ratios[k]]

RECURSIVE RestoreRatiosLoop(_, _, _, _)
RestoreRatiosLoop(ratios, norms, p, n) ==
  IF p = n THEN ratios
  ELSE RestoreRatiosLoop(RestoreRatiosIter(ratios, norms, p), norms, p + 1, n)

restore_ratios(ratios, norms, width, height) ==
  RestoreRatiosLoop(ratios, norms, 0, width * height)

\* ------------------------------------------------------------ display_mask
\* the store skipping the alpha channel
DisplayMaskIterRGB(mask, out, k) == IF k % ch < 3 THEN [out EXCEPT ![k] = mask[k \div ch]] ELSE out

\* out[k] = mask[k / ch]
DisplayMaskIter(mask, out, k) == [out EXCEPT ![k] = mask[k \div ch]]

RECURSIVE DisplayMaskLoop(_, _, _, _)
DisplayMaskLoop(mask, out, k, n) ==
  IF k = n THEN out ELSE DisplayMaskLoop(mask, DisplayMaskIter(mask, out, k), k + 1, n)

display_mask(mask, out, width, height) == DisplayMaskLoop(mask, out, 0, width * height * ch)

\* ------------------------------------------------------------ gauss_solve
\* iop/gaussian_elimination.h: solve A x = b by Gaussian elimination with
\* partial pivoting.  A is a sequence of n rows, b a sequence of n numbers.
PivotRow(A, col, n) ==
  CHOOSE r \in col .. n :
    /\ \A q \in col .. n : Abs(A[q][col]) <= Abs(A[r][col])
    /\ \A q \in col .. (r - 1) : Abs(A[q][col]) < Abs(A[r][col])

SwapRows(M, i, j) == [M EXCEPT ![i] = M[j], ![j] = M[i]]

\* the multiple of the pivot row taken off a row
Factor(aq, ac) == IF aq = 0 THEN 0 ELSE Div(aq, ac)

EliminateRow(row, pivot, f, col, n) ==
  [c \in 1 .. n |-> IF c < col THEN row[c] ELSE row[c] - Mul(f, pivot[c])]

\* eliminate column col below the pivot, the pivot row being in place
EliminateBelow(A, b, col, n) ==
  << [q \in 1 .. n |->
        IF q <= col THEN A[q]
        ELSE EliminateRow(A[q], A[col], Factor(A[q][col], A[col][col]), col, n)],
     [q \in 1 .. n |->
        IF q <= col THEN b[q] ELSE b[q] - Mul(Factor(A[q][col], A[col][col]), b[col])] >>

EliminateWithPivot(A, b, col, r, n) == EliminateBelow(SwapRows(A, col, r), SwapRows(b, col, r), col, n)

EliminateColumn(A, b, col, n) == EliminateWithPivot(A, b, col, PivotRow(A, col, n), n)

RECURSIVE MakeTriangular(_, _, _, _)
RECURSIVE MakeTriangularNext(_, _, _)
MakeTriangularNext(Ab, col, n) == MakeTriangular(Ab[1], Ab[2], col + 1, n)

MakeTriangular(A, b, col, n) ==
  IF col >= n THEN <<A, b>> ELSE MakeTriangularNext(EliminateColumn(A, b, col, n), col, n)

RECURSIVE RowTail(_, _, _, _)
RowTail(row, x, c, n) == IF c > n THEN 0 ELSE Mul(row[c], x[c]) + RowTail(row, x, c + 1, n)

RECURSIVE BackSubstitute(_, _, _, _, _)
BackSubstitute(A, b, x, r, n) ==
  IF r = 0 THEN x
  ELSE BackSubstitute(A, b,
         [x EXCEPT ![r] = Div(b[r] - RowTail(A[r], x, r + 1, n), A[r][r])], r - 1, n)

SolveTriangular(Ab, n) == BackSubstitute(Ab[1], Ab[2], [i \in 1 .. n |-> 0], n, n)

gauss_solve(A, b, n) == SolveTriangular(MakeTriangular(A, b, 1, n), n)

\* ------------------------------------------------------------ CLAMP
CLAMP(x, lo, hi) == IF x > hi THEN hi ELSE IF x < lo THEN lo ELSE x

\* ------------------------------------- dt_iop_filmic_rgb_compute_spline
\* grey_display: the custom target grey, or 18.45 %, to the power 1 / output_power
SplineGreyDisplay(p) ==
  IF p.custom_grey
    THEN powf(Div(CLAMP(p.grey_point_target, p.black_point_target, p.white_point_target),
                  100 * Unit), Div(Unit, p.output_power))
    ELSE powf(Dec4(1845), Div(Unit, p.output_power))

\* the locals computed from the parameters alone
SplineInputs(p) ==
  [grey_display |-> SplineGreyDisplay(p),
   white_source |-> p.white_point_source,
   black_source |-> p.black_point_source,
   dynamic_range |-> p.white_point_source - p.black_point_source,
   grey_log |-> Div(fabsf(p.black_point_source), p.white_point_source - p.black_point_source),
   black_display |-> Div(CLAMP(p.black_point_target, 0, p.grey_point_target), 100 * Unit),
   white_display |-> Div(CLAMP(p.white_point_target, p.grey_point_target, 100 * Unit), 100 * Unit),
   latitude |-> Mul(Div(CLAMP(p.latitude, 0, 100 * Unit), 100 * Unit),
                    p.white_point_source - p.black_point_source),
   balance |-> Div(CLAMP(p.balance, -50 * Unit, 50 * Unit), 100 * Unit),
   contrast |-> CLAMP(p.contrast, Dec4(1000), 2 * Unit)]

\* the nodes on the contrast line before the balance shift, the norm and coeff
SplineLine(q) ==
  [toe_log |-> q.grey_log - Mul(Div(q.latitude, q.dynamic_range),
                                fabsf(Div(q.black_source, q.dynamic_range))),
   shoulder_log |-> q.grey_log + Mul(Div(q.latitude, q.dynamic_range),
                                     fabsf(Div(q.white_source, q.dynamic_range))),
   linear_intercept |-> q.grey_display - Mul(q.contrast, q.grey_log),
   norm |-> sqrtf(Mul(q.contrast, q.contrast) + Unit),
   coeff |-> Mul(-Div(2 * q.latitude, q.dynamic_range), q.balance)]

\* the five nodes: x = (black_log, toe_log, grey_log, shoulder_log, white_log)
\* and y = (black_display, toe_display, grey_display, shoulder_display, white_display)
SplineShifted(q, l) ==
  [x |-> [i \in 0 .. 4 |->
            <<0,
              l.toe_log + Div(l.coeff, l.norm),
              q.grey_log,
              l.shoulder_log + Div(l.coeff, l.norm),
              Unit>>[i + 1]],
   y |-> [i \in 0 .. 4 |->
            <<q.black_display,
              Mul(l.toe_log, q.contrast) + l.linear_intercept + Div(Mul(l.coeff, q.contrast), l.norm),
              q.grey_display,
              Mul(l.shoulder_log, q.contrast) + l.linear_intercept + Div(Mul(l.coeff, q.contrast), l.norm),
              q.white_display>>[i + 1]],
   contrast |-> q.contrast]

SplineNodesFrom(q) == SplineShifted(q, SplineLine(q))

SplineNodes(p) == SplineNodesFrom(SplineInputs(p))

\* Tl, Tl2 = Tl * Tl, Tl3 = Tl2 * Tl, Tl4 = Tl3 * Tl
PowersFrom(t, t2) == <<t, t2, Mul(t2, t), Mul(Mul(t2, t), t)>>
Powers(t) == PowersFrom(t, Mul(t, t))

\* the coefficients of a third order solution with M5 = 0 in front
ThirdOrder(sol) == [i \in 1 .. 5 |-> IF i = 1 THEN 0 ELSE sol[i - 1]]

\* the coefficients of the toe, highest power first (M5, M4, M3, M2, M1)
SplineToeSolve(p, y, slope, T) ==
  IF p.shadows = DT_FILMIC_CURVE_POLY_4
    THEN gauss_solve(<< <<0, 0, 0, 0, Unit>>,
                        <<0, 0, 0, Unit, 0>>,
                        <<T[4], T[3], T[2], T[1], Unit>>,
                        <<4 * T[3], 3 * T[2], 2 * T[1], Unit, 0>>,
                        <<12 * T[2], 6 * T[1], 2 * Unit, 0, 0>> >>,
                     <<y[0], 0, y[1], slope, 0>>, 5)
    ELSE ThirdOrder(gauss_solve(<< <<0, 0, 0, Unit>>,
                                   <<T[3], T[2], T[1], Unit>>,
                                   <<3 * T[2], 2 * T[1], Unit, 0>>,
                                   <<6 * T[1], 2 * Unit, 0, 0>> >>,
                                <<y[0], y[1], slope, 0>>, 4))

\* the toe solved through the abscissa of the grey node
SplineToeAtGrey(p, x, y, slope) == SplineToeSolve(p, y, slope, Powers(x[2]))

SplineToe(p, x, y, slope) == SplineToeSolve(p, y, slope, Powers(x[1]))

\* the coefficients of the shoulder, highest power first
SplineShoulderSolve(p, y, slope, S) ==
  IF p.highlights = DT_FILMIC_CURVE_POLY_3
    THEN ThirdOrder(gauss_solve(<< <<Unit, Unit, Unit, Unit>>,
                                   <<S[3], S[2], S[1], Unit>>,
                                   <<3 * S[2], 2 * S[1], Unit, 0>>,
                                   <<6 * S[1], 2 * Unit, 0, 0>> >>,
                                <<y[4], y[3], slope, 0>>, 4))
    ELSE gauss_solve(<< <<Unit, Unit, Unit, Unit, Unit>>,
                        <<4 * Unit, 3 * Unit, 2 * Unit, Unit, 0>>,
                        <<S[4], S[3], S[2], S[1], Unit>>,
                        <<4 * S[3], 3 * S[2], 2 * S[1], Unit, 0>>,
                        <<12 * S[2], 6 * S[1], 2 * Unit, 0, 0>> >>,
                     <<y[4], 0, y[3], slope, 0>>, 5)

SplineShoulder(p, x, y, slope) == SplineShoulderSolve(p, y, slope, Powers(x[3]))

\* the central affine part: slope M2[2] and offset M1[2]
SplineCentralSlope(contrast) == contrast

\* the offset taken at the abscissa of the grey node
SplineCentralOffsetAtGrey(x, y, slope) == y[1] - Mul(slope, x[2])

SplineCentralOffset(x, y, slope) == y[1] - Mul(slope, x[1])

\* spline->latitude_min and spline->latitude_max
SplineLatitudeMin(x) == x[1]
SplineLatitudeMax(x) == x[3]

\* the spline: M1 .. M5 are indexed 0 (toe), 1 (shoulder), 2 (latitude)
SplineRecord(nd, toe, sh, slope) ==
  [M1 |-> [i \in 0 .. 2 |-> <<toe[5], sh[5], SplineCentralOffset(nd.x, nd.y, slope)>>[i + 1]],
   M2 |-> [i \in 0 .. 2 |-> <<toe[4], sh[4], slope>>[i + 1]],
   M3 |-> [i \in 0 .. 2 |-> <<toe[3], sh[3], 0>>[i + 1]],
   M4 |-> [i \in 0 .. 2 |-> <<toe[2], sh[2], 0>>[i + 1]],
   M5 |-> [i \in 0 .. 2 |-> <<toe[1], sh[1], 0>>[i + 1]],
   latitude_min |-> SplineLatitudeMin(nd.x),
   latitude_max |-> SplineLatitudeMax(nd.x),
   x |-> nd.x,
   y |-> nd.y]

SplineFromNodes(p, nd, slope) ==
  SplineRecord(nd, SplineToe(p, nd.x, nd.y, slope), SplineShoulder(p, nd.x, nd.y, slope), slope)

SplineOfNodes(p, nd) == SplineFromNodes(p, nd, SplineCentralSlope(nd.contrast))

dt_iop_filmic_rgb_compute_spline(p) == SplineOfNodes(p, SplineNodes(p))

\* ------------------------------------------------------------ filmic_spline
\* the segment of x: 0 toe, 1 shoulder, 2 latitude
SplineSegment(x, spline) ==
  IF x < spline.latitude_min THEN 0
  ELSE IF x > spline.latitude_max THEN 1
  ELSE 2

\* M1 + x * (M2 + x * (M3 + x * (M4 + x * M5))) on the segment g
SplinePolynomial(x, spline, g) ==
  spline.M1[g] + Mul(x, spline.M2[g] + Mul(x, spline.M3[g]
                 + Mul(x, spline.M4[g] + Mul(x, spline.M5[g]))))

filmic_spline(x, spline) == SplinePolynomial(x, spline, SplineSegment(x, spline))

\* ------------------------------------------------------------ commit_params
\* grey_source and grey_display
CommitGreySource(p) == IF p.custom_grey THEN Div(p.grey_point_source, 100 * Unit) ELSE Dec4(1845)

CommitGreyDisplay(p) ==
  IF p.custom_grey THEN powf(Div(p.grey_point_target, 100 * Unit), Div(Unit, p.output_power))
                   ELSE powf(Dec4(1845), Div(Unit, p.output_power))

\* grey_log = fabsf(black_point_source) / dynamic_range
CommitGreyLog(p) == Div(fabsf(p.black_point_source), p.white_point_source - p.black_point_source)

\* the contrast committed as the parameter gives it
CommitContrastAsGiven(contrast, grey_display, grey_log) == contrast

\* contrast is raised to 1.0001 * grey_display / grey_log when below grey_display / grey_log
CommitContrast(contrast, grey_display, grey_log) ==
  IF contrast < Div(grey_display, grey_log)
    THEN Div(Mul(Dec4(10001), grey_display), grey_log)
    ELSE contrast

\* the committed data, given the spline compute_spline returned
CommitData(p, grey_source, spline) ==
  [dynamic_range |-> p.white_point_source - p.black_point_source,
   black_source |-> p.black_point_source,
   grey_source |-> grey_source,
   output_power |-> p.output_power,
   contrast |-> CommitContrast(p.contrast, CommitGreyDisplay(p), CommitGreyLog(p)),
   version |-> p.version,
   preserve_color |-> p.preserve_color,
   high_quality_reconstruction |-> p.high_quality_reconstruction,
   spline |-> spline,
   saturation |-> Div(Mul(2 * Unit, p.saturation), 100 * Unit) + Unit,
   \* powf(x, 2.0f) is x * x, also for a negative x
   sigma_toe |-> sqf(Div(spline.latitude_min, 3 * Unit)),
   sigma_shoulder |-> sqf(Div(Unit - spline.latitude_max, 3 * Unit)),
   reconstruct_threshold |-> Mul(exp2f(p.white_point_source + p.reconstruct_threshold), grey_source),
   reconstruct_feather |-> exp2f(Div(12 * Unit, p.reconstruct_feather)),
   reconstruct_structure_vs_texture |->
     Div(Div(p.reconstruct_structure_vs_texture, 100 * Unit) + Unit, 2 * Unit),
   reconstruct_bloom_vs_details |->
     Div(Div(p.reconstruct_bloom_vs_details, 100 * Unit) + Unit, 2 * Unit),
   reconstruct_grey_vs_color |->
     Div(Div(p.reconstruct_grey_vs_color, 100 * Unit) + Unit, 2 * Unit)]

commit_params(p) == CommitData(p, CommitGreySource(p), dt_iop_filmic_rgb_compute_spline(p))

\* the default parameters of init()
DefaultParams ==
  [grey_point_source |-> Dec4(184500),
   black_point_source |-> Dec4(-105500),
   white_point_source |-> Dec4(34500),
   reconstruct_threshold |-> 0,
   reconstruct_feather |-> 3 * Unit,
   reconstruct_bloom_vs_details |-> 100 * Unit,
   reconstruct_grey_vs_color |-> 0,
   reconstruct_structure_vs_texture |-> 50 * Unit,
   security_factor |-> 0,
   grey_point_target |-> Dec4(184500),
   black_point_target |-> 0,
   white_point_target |-> 100 * Unit,
   output_power |-> Dec4(59800),
   latitude |-> 40 * Unit,
   contrast |-> Dec4(13000),
   saturation |-> 0,
   balance |-> 12 * Unit,
   preserve_color |-> DT_FILMIC_METHOD_POWER_NORM,
   shadows |-> DT_FILMIC_CURVE_POLY_4,
   highlights |-> DT_FILMIC_CURVE_POLY_4,
   version |-> DT_FILMIC_COLORSCIENCE_V2,
   auto_hardness |-> TRUE,
   custom_grey |-> FALSE,
   high_quality_reconstruction |-> FALSE]

\* ------------------------------------------------------------ log encoding
log_tonemapping_v1(x, grey, black, dynamic_range) ==
  fmaxf(fminf(Div(log2f(Div(x, grey)) - black, dynamic_range), Unit), NormFloor)

log_tonemapping_v2(x, grey, black, dynamic_range) ==
  clamp_simd(Div(log2f(Div(x, grey)) - black, dynamic_range))

\* ------------------------------------------------------------ desaturation
\* expf(-0.5 * radius * radius / sigma)
DesaturateKeyV1(radius, sigma) == expf(Div(Mul(-(Unit \div 2), Mul(radius, radius)), sigma))

filmic_desaturate_v1(x, sigma_toe, sigma_shoulder, saturation) ==
  Unit - clamp_simd(Div(DesaturateKeyV1(x, sigma_toe) + DesaturateKeyV1(Unit - x, sigma_shoulder),
                        saturation))

\* expf(-radius * radius / sigma * sat2), sat2 = 0.5 / sqrtf(saturation)
DesaturateKeyV2(radius, sigma, sat2) == expf(Mul(Div(Mul(-radius, radius), sigma), sat2))

DesaturateV2With(x, sigma_toe, sigma_shoulder, saturation, sat2) ==
  saturation - Mul(DesaturateKeyV2(x, sigma_toe, sat2) + DesaturateKeyV2(Unit - x, sigma_shoulder, sat2),
                   saturation)

filmic_desaturate_v2(x, sigma_toe, sigma_shoulder, saturation) ==
  DesaturateV2With(x, sigma_toe, sigma_shoulder, saturation, Div(Unit \div 2, sqrtf(saturation)))

linear_saturation(x, luminance, saturation) == luminance + Mul(saturation, x - luminance)

\* powf(clamp_simd(filmic_spline(x)), output_power): the curve and the display power
CurveAndPower(x, d) == powf(clamp_simd(filmic_spline(x, d.spline)), d.output_power)

\* ------------------------------------------------------ the four kernels
\* each gives the three colour channels of one output pixel, indexed 1 .. 3
\* (pix_in[c] < 2^-16) ? 2^-16 : pix_in[c]
FloorChannel(v) == IF v < NormFloor THEN NormFloor ELSE v

\* temp[c], the log encoding of the channels
SplitEncode(pix, d, v2) ==
  [c \in 1 .. 3 |->
     IF v2 THEN log_tonemapping_v2(FloorChannel(pix[c]), d.grey_source, d.black_source, d.dynamic_range)
           ELSE log_tonemapping_v1(FloorChannel(pix[c]), d.grey_source, d.black_source, d.dynamic_range)]

SplitDesaturation(lum, d, v2) ==
  IF v2 THEN filmic_desaturate_v2(lum, d.sigma_toe, d.sigma_shoulder, d.saturation)
        ELSE filmic_desaturate_v1(lum, d.sigma_toe, d.sigma_shoulder, d.saturation)

SplitOut(temp, lum, desaturation, d) ==
  [c \in 1 .. 3 |-> CurveAndPower(linear_saturation(temp[c], lum, desaturation), d)]

SplitWithLum(temp, lum, d, v2) == SplitOut(temp, lum, SplitDesaturation(lum, d, v2), d)

SplitEncoded(temp, d, work_profile, v2) == SplitWithLum(temp, Luminance(temp, work_profile), d, v2)

SplitPixel(pix, d, work_profile, v2) == SplitEncoded(SplitEncode(pix, d, v2), d, work_profile, v2)

filmic_split_v1_pixel(pix, d, work_profile) == SplitPixel(pix, d, work_profile, FALSE)
filmic_split_v2_pixel(pix, d, work_profile) == SplitPixel(pix, d, work_profile, TRUE)

\* if(min_ratios < 0) ratios[c] -= min_ratios
SanitizeWith(r, min_ratios) == IF min_ratios < 0 THEN [c \in 1 .. 3 |-> r[c] - min_ratios] ELSE r

SanitizeRatios(r) == SanitizeWith(r, fminf(fminf(r[1], r[2]), r[3]))

\* ratios[c] = pix_in[c] / norm, sanitized
SanitizedRatios(pix, norm) == SanitizeRatios([c \in 1 .. 3 |-> Div(pix[c], norm)])

\* filmic_chroma_v1 from the point where ratios were multiplied by the log norm
ChromaV1Out(ratios, lum, desaturation, norm_log, norm) ==
  [c \in 1 .. 3 |-> Mul(Div(linear_saturation(ratios[c], lum, desaturation), norm_log), norm)]

ChromaV1Scaled(ratios, d, work_profile, norm_log) ==
  ChromaV1Out(ratios, Luminance(ratios, work_profile),
              filmic_desaturate_v1(norm_log, d.sigma_toe, d.sigma_shoulder, d.saturation),
              norm_log, CurveAndPower(norm_log, d))

ChromaV1FromLog(ratios, d, work_profile, norm_log) ==
  ChromaV1Scaled([c \in 1 .. 3 |-> Mul(ratios[c], norm_log)], d, work_profile, norm_log)

ChromaV1FromNorm(pix, d, work_profile, norm) ==
  ChromaV1FromLog(SanitizedRatios(pix, norm), d, work_profile,
                  log_tonemapping_v1(norm, d.grey_source, d.black_source, d.dynamic_range))

filmic_chroma_v1_pixel(pix, d, work_profile, variant) ==
  ChromaV1FromNorm(pix, d, work_profile, FloorNorm(get_pixel_norm(pix, variant, work_profile)))

\* the recombined pixel kept whatever its largest channel
ChromaV2ClipNever(ratios, norm, pix_out, max_pix) == pix_out

\* filmic_chroma_v2: the gamut mapping, given pix_out and its largest channel
ChromaV2Clip(ratios, norm, pix_out, max_pix) ==
  IF max_pix > Unit
    THEN [c \in 1 .. 3 |-> clamp_simd(Mul(fmaxf(ratios[c] + (Unit - max_pix), 0), norm))]
    ELSE pix_out

ChromaV2Gamut(ratios, norm, pix_out) ==
  ChromaV2Clip(ratios, norm, pix_out, fmaxf(fmaxf(pix_out[1], pix_out[2]), pix_out[3]))

\* pix_out[c] = ratios[c] * norm, for the ratios after the saturation change
ChromaV2Reapply(ratios, norm) == ChromaV2Gamut(ratios, norm, [c \in 1 .. 3 |-> Mul(ratios[c], norm)])

\* ratios[c] = fmaxf(ratios[c] + (1 - ratios[c]) * (1 - desaturation), 0)
ChromaV2Saturate(ratios, desaturation) ==
  [c \in 1 .. 3 |-> fmaxf(ratios[c] + Mul(Unit - ratios[c], Unit - desaturation), 0)]

\* the norm after the log encoding, and after curve and display power
ChromaV2LogNorm(norm, d) == log_tonemapping_v2(norm, d.grey_source, d.black_source, d.dynamic_range)

ChromaV2FromLog(ratios, d, norm_log) ==
  ChromaV2Reapply(ChromaV2Saturate(ratios, filmic_desaturate_v2(norm_log, d.sigma_toe,
                                                               d.sigma_shoulder, d.saturation)),
                  CurveAndPower(norm_log, d))

ChromaV2FromNorm(pix, d, norm) ==
  ChromaV2FromLog(SanitizedRatios(pix, norm), d, ChromaV2LogNorm(norm, d))

filmic_chroma_v2_pixel(pix, d, work_profile, variant) ==
  ChromaV2FromNorm(pix, d, FloorNorm(get_pixel_norm(pix, variant, work_profile)))

\* one iteration of a tone kernel: pix_out[c], c < 3, of the pixel at k = p * ch
KernelPixel(pix, d, work_profile) ==
  IF d.preserve_color = DT_FILMIC_METHOD_NONE
    THEN IF d.version = DT_FILMIC_COLORSCIENCE_V1
           THEN filmic_split_v1_pixel(pix, d, work_profile)
           ELSE filmic_split_v2_pixel(pix, d, work_profile)
    ELSE IF d.version = DT_FILMIC_COLORSCIENCE_V1
           THEN filmic_chroma_v1_pixel(pix, d, work_profile, d.preserve_color)
           ELSE filmic_chroma_v2_pixel(pix, d, work_profile, d.preserve_color)

\* the loop body storing a fourth channel too, the alpha of its input
KernelIterWithAlpha(in, out, d, work_profile, p) ==
  LET o == KernelPixel(PixelAt(in, p), d, work_profile)
  IN  [k \in DOMAIN out |->
         IF k \div ch = p THEN (IF k % ch < 3 THEN o[(k % ch) + 1] ELSE in[k]) ELSE out[k]]

KernelIter(in, out, d, work_profile, p) ==
  LET o == KernelPixel(PixelAt(in, p), d, work_profile)
  IN  [k \in DOMAIN out |-> IF k \div ch = p /\ k % ch < 3 THEN o[(k % ch) + 1] ELSE out[k]]

RECURSIVE KernelLoop(_, _, _, _, _, _)
KernelLoop(in, out, d, work_profile, p, n) ==
  IF p = n THEN out
  ELSE KernelLoop(in, KernelIter(in, out, d, work_profile, p), d, work_profile, p + 1, n)

\* the pixels the kernel is told to map: its width is roi_out->width; its
\* height is roi_in->height for the channel-split kernels and roi_out->height
\* for the norm-preserving ones.  One row less:
KernelPixelsOneRowLess(d, width, height_in, height_out) == width * (height_out - 1)

KernelPixels(d, width, height_in, height_out) ==
  IF d.preserve_color = DT_FILMIC_METHOD_NONE THEN width * height_in ELSE width * height_out

\* the name of the kernel process dispatches to, "none" for an unknown version
KernelName(d) ==
  IF d.preserve_color = DT_FILMIC_METHOD_NONE
    THEN IF d.version = DT_FILMIC_COLORSCIENCE_V1 THEN "filmic_split_v1"
         ELSE IF d.version = DT_FILMIC_COLORSCIENCE_V2 THEN "filmic_split_v2" ELSE "none"
    ELSE IF d.version = DT_FILMIC_COLORSCIENCE_V1 THEN "filmic_chroma_v1"
         ELSE IF d.version = DT_FILMIC_COLORSCIENCE_V2 THEN "filmic_chroma_v2" ELSE "none"

\* dt_iop_alpha_copy(ivoid, ovoid, width, height): the alpha channel of the input
dt_iop_alpha_copy(in, out, width, height) ==
  [k \in DOMAIN out |-> IF k % ch = 3 /\ k < width * height * ch THEN in[k] ELSE out[k]]

\* ================================================================ state
VARIABLES
  pc,     \* the statement the render is at
  mem,    \* buffer name -> content; NULL where nothing is allocated
  env,    \* the pipeline around the call: piece->colors, the GUI, the profile
  data,   \* piece->data, as commit_params left it
  loc,    \* the locals of process: in, recover_highlights, success_1, success_2
  rh,     \* the locals of the running reconstruct_highlights call
  obs,    \* what the render has done so far (history, not program state)
  par,    \* one data-parallel stage with its iterations in flight
  curve,  \* a committed parameter set and the values read off its curve
  call,   \* a function of the module called on its own: arguments and result
  gui     \* the module's GUI: self->params, darktable.gui->reset, the picker, the history

vars == <<pc, mem, env, data, loc, rh, obs, par, curve, call, gui>>

NULL == <<>>

BufferNames ==
  {"ivoid", "ovoid", "mask", "reconstructed", "norms", "ratios",
   "LF_even", "LF_odd", "HF_RGB", "HF_grey", "temp"}

\* what dt_alloc_sse_ps(n) returns when it succeeds: n floats of indeterminate
\* content, all given here the value fill
Fresh(n, fill) == [k \in 0 .. (n - 1) |-> fill]

\* the values indeterminate floats take in the model
Junk == {-3 * Unit, 5 * Unit + 1}

\* ------------------------------------------------------------ the inputs
\* an input image of Width x Height pixels whose first bright pixels lie far
\* above the reconstruction threshold of the parameter sets and the others far
\* below; alpha goes down from 1 with the index of the pixel
ImagePixel(p, bright) ==
  IF p < bright
    THEN <<(2 + (p % 3)) * Unit, 3 * Unit + p * (Unit \div 8), (4 - (p % 2)) * Unit,
           Unit - p * (Unit \div 32)>>
    ELSE <<(1 + (p % 4)) * (Unit \div 16), Unit \div 5, Unit \div 10 + p,
           Unit - p * (Unit \div 32)>>

Image(w, h, bright) == [k \in 0 .. (w * h * ch - 1) |-> ImagePixel(k \div ch, bright)[(k % ch) + 1]]

\* the bright pixel counts of the input images
BrightCounts == {0, 9, 10, Width * Height}

\* roi_in->height: the module changes no geometry (it has no modify_roi_in),
\* and the host hands process the same region as roi_in and roi_out
RoiInHeight == Height

\* the content of the output buffer before the call
OutBefore == [k \in 0 .. (Width * Height * ch - 1) |-> -(k + 1)]

\* the parameter sets of the renders: the defaults, and sets that reach the
\* other kernels, the second pass and other weights
ParamSets ==
  { DefaultParams,
    [DefaultParams EXCEPT !.high_quality_reconstruction = TRUE,
                          !.preserve_color = DT_FILMIC_METHOD_MAX_RGB,
                          !.reconstruct_grey_vs_color = 50 * Unit],
    [DefaultParams EXCEPT !.version = DT_FILMIC_COLORSCIENCE_V1,
                          !.preserve_color = DT_FILMIC_METHOD_NONE,
                          !.reconstruct_structure_vs_texture = 0,
                          !.reconstruct_bloom_vs_details = 50 * Unit],
    [DefaultParams EXCEPT !.version = DT_FILMIC_COLORSCIENCE_V1,
                          !.preserve_color = DT_FILMIC_METHOD_LUMINANCE,
                          !.high_quality_reconstruction = TRUE,
                          !.reconstruct_threshold = -Unit],
    [DefaultParams EXCEPT !.preserve_color = DT_FILMIC_METHOD_NONE,
                          !.saturation = 10 * Unit] }

Env(colors, gui_attached, pipe_full, show_mask, work_profile) ==
  [colors |-> colors, gui_attached |-> gui_attached, pipe_full |-> pipe_full,
   show_mask |-> show_mask, work_profile |-> work_profile]

\* piece->colors, self->dev->gui_attached, piece->pipe->type = DT_DEV_PIXELPIPE_FULL,
\* g->show_mask, and whether the pipe has a work profile
Environments ==
  { Env(3, FALSE, FALSE, FALSE, TRUE),
    Env(4, FALSE, FALSE, FALSE, TRUE),
    Env(4, FALSE, FALSE, FALSE, FALSE),
    Env(4, TRUE, TRUE, FALSE, TRUE),
    Env(4, TRUE, TRUE, TRUE, TRUE),
    Env(4, TRUE, FALSE, TRUE, TRUE) }

\* the sizes MAX(buf_in.width, buf_in.height) * iscale of the full image the
\* region is cut from, at roi_in->scale / iscale = 1: get_scales gives 1 for
\* the first, 2 for the second, ... up to MaxScales
BufSizes == {30 * 2 ^ (i - 1) : i \in 1 .. MaxScales}

LocInit == [in |-> "ivoid", recover_highlights |-> FALSE, success_1 |-> FALSE, success_2 |-> FALSE]

RhIdle == [variant |-> 0, in |-> "none", scales |-> 0, s |-> 0, success |-> TRUE,
           ret |-> "none", events |-> <<>>]

\* pass1_result: the accumulator as the first pass returned it, when it succeeded
\* allocated: the allocations that succeeded; dangling: the buffers whose
\* pointer, still in scope, was passed to dt_free_align; double_frees: the
\* calls of dt_free_align on such a pointer
\* allocs, frees: calls of dt_alloc_sse_ps and dt_free_align; mask_alloc and
\* reconstructed_alloc: "none" before the allocation, then "ok" or "failed";
\* recover_tested: the test guarding the reconstruction was evaluated;
\* pass1_failed: an allocation of the first reconstruct_highlights call failed;
\* ratios_alloc: "none" before norms and ratios are allocated, then "ok" when
\* both were, "failed" otherwise; kernel_pixels: the pixels the tone kernel
\* was called on
ObsInit == [allocs |-> 0, frees |-> 0, rh_calls |-> 0, kernels |-> <<>>, kernel_in |-> "none",
            null_stores |-> 0, displayed |-> FALSE, alpha_copied |-> FALSE, masked |-> FALSE,
            mask_alloc |-> "none", reconstructed_alloc |-> "none", recover_tested |-> FALSE,
            pass1_failed |-> FALSE, ratios_alloc |-> "none", kernel_pixels |-> 0,
            pass1_result |-> NULL, allocated |-> 0, dangling |-> {}, double_frees |-> 0]

ParIdle == [stage |-> "none"]
CurveIdle == [p |-> "none"]
CallIdle == [fn |-> "none"]
GuiIdle == [op |-> "none"]

Init ==
  /\ pc = "process"
  /\ \E bright \in BrightCounts :
       mem = [b \in BufferNames |->
                IF b = "ivoid" THEN Image(Width, Height, bright)
                ELSE IF b = "ovoid" THEN OutBefore
                ELSE NULL]
  /\ env \in Environments
  /\ \E p \in ParamSets : data = commit_params(p)
  /\ loc = LocInit
  /\ rh = RhIdle
  /\ obs = ObsInit
  /\ par = ParIdle
  /\ curve = CurveIdle
  /\ call = CallIdle
  /\ gui = GuiIdle

\* -------------------------------------------------------------- process
\* const float normalize = data->reconstruct_feather / data->reconstruct_threshold
Normalize(d) == Div(d.reconstruct_feather, d.reconstruct_threshold)

\* mask_clipped_pixels: the mask it leaves and the value it returns
mask_clipped_pixels(in, mask, normalize, feathering, width, height) ==
  [mask |-> MaskLoop(in, mask, normalize, feathering, 0, width * height),
   return |-> RecoverThreshold(ClippedCount(in, normalize, feathering, 0, width * height))]

\* n calls of dt_alloc_sse_ps, ok of them successful
Allocated(o, n, ok) == [o EXCEPT !.allocs = @ + n, !.allocated = @ + ok]

\* the pointers among names that are not NULL: to a live or to a freed buffer
NonNull(o, names) == {b \in names : mem[b] # NULL \/ b \in o.dangling}

\* if(ptr) dt_free_align(ptr) for the pointers names
Freed(o, names) ==
  [o EXCEPT !.frees = @ + Cardinality(NonNull(o, names)),
            !.double_frees = @ + Cardinality(names \cap o.dangling),
            !.dangling = @ \cup NonNull(o, names)]

\* the buffers names released
FreeBuffers(m, names) == [b \in DOMAIN m |-> IF b \in names THEN NULL ELSE m[b]]

\* the mask preview falling through to the rest of process
AfterDisplayMaskFallsThrough == "alloc_reconstructed"

\* display_mask(...); dt_free_align(mask); return;
AfterDisplayMask == "done"

\* the test rejecting only inputs with more than 4 channels
ColorsRejectedAboveFour(colors) == colors > 4

\* piece->colors != 4
ColorsRejected(colors) == colors # 4

\* if(piece->colors != 4) { dt_control_log(...); return; }
CheckColors ==
  /\ pc = "process"
  /\ pc' = IF ColorsRejected(env.colors) THEN "done" ELSE "alloc_mask"
  /\ UNCHANGED <<mem, env, data, loc, rh, obs, par, curve, call, gui>>

\* float *const restrict mask = dt_alloc_sse_ps(width * height)
AllocMask ==
  /\ pc = "alloc_mask"
  /\ \E ok \in BOOLEAN, fill \in Junk :
       /\ mem' = [mem EXCEPT !["mask"] = IF ok THEN Fresh(Width * Height, fill) ELSE NULL]
       /\ obs' = [Allocated(obs, 1, IF ok THEN 1 ELSE 0) EXCEPT
                    !.mask_alloc = IF ok THEN "ok" ELSE "failed"]
  /\ pc' = "mask_clipped_pixels"
  /\ UNCHANGED <<env, data, loc, rh, par, curve, call, gui>>

\* recover_highlights = mask_clipped_pixels(in, mask, ...), called whether or
\* not mask is NULL: here mask was allocated
MaskClippedPixels ==
  /\ pc = "mask_clipped_pixels"
  /\ mem["mask"] # NULL
  /\ LET r == mask_clipped_pixels(mem["ivoid"], mem["mask"], Normalize(data),
                                  data.reconstruct_feather, Width, Height)
     IN  /\ mem' = [mem EXCEPT !["mask"] = r.mask]
         /\ loc' = [loc EXCEPT !.recover_highlights = r.return]
  /\ obs' = [obs EXCEPT !.masked = TRUE]
  /\ pc' = "preview"
  /\ UNCHANGED <<env, data, rh, par, curve, call, gui>>

\* the same call with mask = NULL: every iteration stores mask[k / ch] = weight
\* through the null pointer, which is undefined: the first store faults and
\* the render dies, or the stores are lost and the call returns its count
MaskClippedPixelsNull ==
  /\ pc = "mask_clipped_pixels"
  /\ mem["mask"] = NULL
  /\ \E outcome \in {"fault", "lost"} :
       IF outcome = "fault"
         THEN /\ pc' = "crashed"
              /\ obs' = [obs EXCEPT !.null_stores = 1]
              /\ loc' = loc
         ELSE /\ pc' = "preview"
              /\ obs' = [obs EXCEPT !.null_stores = Width * Height]
              /\ loc' = [loc EXCEPT !.recover_highlights =
                           RecoverThreshold(ClippedCount(mem["ivoid"], Normalize(data),
                                                         data.reconstruct_feather, 0, Width * Height))]
  /\ UNCHANGED <<mem, env, data, rh, par, curve, call, gui>>

\* display mask and exit
Preview ==
  /\ pc = "preview"
  /\ IF env.gui_attached /\ env.pipe_full /\ mem["mask"] # NULL /\ env.show_mask
       THEN /\ mem' = FreeBuffers([mem EXCEPT !["ovoid"] =
                                       display_mask(mem["mask"], @, Width, Height)], {"mask"})
            /\ obs' = [Freed(obs, {"mask"}) EXCEPT !.displayed = TRUE]
            /\ pc' = AfterDisplayMask
       ELSE /\ pc' = "alloc_reconstructed"
            /\ UNCHANGED <<mem, obs>>
  /\ UNCHANGED <<env, data, loc, rh, par, curve, call, gui>>

\* float *const restrict reconstructed = dt_alloc_sse_ps(width * height * ch)
AllocReconstructed ==
  /\ pc = "alloc_reconstructed"
  /\ \E ok \in BOOLEAN, fill \in Junk :
       /\ mem' = [mem EXCEPT !["reconstructed"] =
                    IF ok THEN Fresh(Width * Height * ch, fill) ELSE NULL]
       /\ obs' = [Allocated(obs, 1, IF ok THEN 1 ELSE 0) EXCEPT
                    !.reconstructed_alloc = IF ok THEN "ok" ELSE "failed"]
  /\ pc' = "recover"
  /\ UNCHANGED <<env, data, loc, rh, par, curve, call, gui>>

\* whether process enters the reconstruction: recover_highlights && mask && reconstructed
RecoverGuard(recover_highlights, mask, reconstructed) ==
  recover_highlights /\ mask # NULL /\ reconstructed # NULL

\* the call reconstruct_highlights(in, mask, reconstructed, variant, ...)
RhCall(in, variant, ret) ==
  [RhIdle EXCEPT !.in = in, !.variant = variant, !.ret = ret]

\* if(recover_highlights && mask && reconstructed): first pass, on the input
Recover ==
  /\ pc = "recover"
  /\ IF RecoverGuard(loc.recover_highlights, mem["mask"], mem["reconstructed"])
       THEN /\ rh' = RhCall(loc.in, 0, "pass1_done")
            /\ obs' = [obs EXCEPT !.rh_calls = @ + 1, !.recover_tested = TRUE]
            /\ pc' = "rh_alloc"
       ELSE /\ pc' = "free_mask"
            /\ obs' = [obs EXCEPT !.recover_tested = TRUE]
            /\ rh' = rh
  /\ UNCHANGED <<mem, env, data, loc, par, curve, call, gui>>

\* success_1 = (the call's return); if(data->high_quality_reconstruction && success_1)
Pass1Done ==
  /\ pc = "pass1_done"
  /\ loc' = [loc EXCEPT !.success_1 = rh.success]
  /\ rh' = RhIdle
  /\ pc' = IF data.high_quality_reconstruction /\ rh.success THEN "alloc_ratios" ELSE "select_input"
  /\ obs' = [obs EXCEPT !.pass1_result = IF rh.success THEN mem["reconstructed"] ELSE @]
  /\ UNCHANGED <<mem, env, data, par, curve, call, gui>>

\* norms = dt_alloc_sse_ps(width * height); ratios = dt_alloc_sse_ps(width * height * ch)
AllocRatios ==
  /\ pc = "alloc_ratios"
  /\ \E ok_norms \in BOOLEAN, ok_ratios \in BOOLEAN, fill \in Junk :
       /\ mem' = [mem EXCEPT !["norms"] = IF ok_norms THEN Fresh(Width * Height, fill) ELSE NULL,
                             !["ratios"] = IF ok_ratios THEN Fresh(Width * Height * ch, fill) ELSE NULL]
       /\ pc' = IF ok_norms /\ ok_ratios THEN "compute_ratios" ELSE "free_ratios"
       /\ obs' = [Allocated(obs, 2, Cardinality({b \in {"norms", "ratios"} :
                                       IF b = "norms" THEN ok_norms ELSE ok_ratios})) EXCEPT
                    !.ratios_alloc = IF ok_norms /\ ok_ratios THEN "ok" ELSE "failed"]
  /\ UNCHANGED <<env, data, loc, rh, par, curve, call, gui>>

\* compute_ratios(reconstructed, norms, ratios, ...) and the second pass, on the ratios
ComputeRatios ==
  /\ pc = "compute_ratios"
  /\ LET r == compute_ratios(mem["reconstructed"], mem["norms"], mem["ratios"],
                             data.preserve_color, env.work_profile, Width, Height)
     IN  mem' = [mem EXCEPT !["norms"] = r[1], !["ratios"] = r[2]]
  /\ rh' = RhCall("ratios", 1, "pass2_done")
  /\ obs' = [obs EXCEPT !.rh_calls = @ + 1]
  /\ pc' = "rh_alloc"
  /\ UNCHANGED <<env, data, loc, par, curve, call, gui>>

\* the multiplication by the norms without its test
RestoreAlways(success_2, reconstructed, norms) ==
  restore_ratios(reconstructed, norms, Width, Height)

\* if(success_2) restore_ratios(reconstructed, norms, ...)
RestoreIfSuccess(success_2, reconstructed, norms) ==
  IF success_2 THEN restore_ratios(reconstructed, norms, Width, Height) ELSE reconstructed

\* success_2 = (the call's return) and the restoration of the ratios
Pass2Done ==
  /\ pc = "pass2_done"
  /\ loc' = [loc EXCEPT !.success_2 = rh.success]
  /\ mem' = [mem EXCEPT !["reconstructed"] = RestoreIfSuccess(rh.success, @, mem["norms"])]
  /\ rh' = RhIdle
  /\ pc' = "free_ratios"
  /\ UNCHANGED <<env, data, obs, par, curve, call, gui>>

\* the number of buffers of a set that are allocated
Live(names) == Cardinality({b \in names : mem[b] # NULL})

\* if(norms) dt_free_align(norms); if(ratios) dt_free_align(ratios)
FreeRatios ==
  /\ pc = "free_ratios"
  /\ obs' = Freed(obs, {"norms", "ratios"})
  /\ mem' = FreeBuffers(mem, {"norms", "ratios"})
  /\ pc' = "select_input"
  /\ UNCHANGED <<env, data, loc, rh, par, curve, call, gui>>

\* the assignment without its test
InputAfterPassesAlways(in, success_1) == "reconstructed"

\* the buffer in points to after: if(success_1) in = reconstructed
InputAfterPasses(in, success_1) == IF success_1 THEN "reconstructed" ELSE in

\* if(success_1) in = reconstructed
SelectInput ==
  /\ pc = "select_input"
  /\ loc' = [loc EXCEPT !.in = InputAfterPasses(@, loc.success_1)]
  /\ pc' = "free_mask"
  /\ UNCHANGED <<mem, env, data, rh, obs, par, curve, call, gui>>

\* if(mask) dt_free_align(mask)
FreeMask ==
  /\ pc = "free_mask"
  /\ obs' = Freed(obs, {"mask"})
  /\ mem' = FreeBuffers(mem, {"mask"})
  /\ pc' = "kernel"
  /\ UNCHANGED <<env, data, loc, rh, par, curve, call, gui>>

\* the dispatch on variant and data->version to one of the four kernels
Kernel ==
  /\ pc = "kernel"
  /\ IF KernelName(data) # "none"
       THEN /\ mem' = [mem EXCEPT !["ovoid"] =
                         KernelLoop(mem[loc.in], @, data, env.work_profile, 0,
                                    KernelPixels(data, Width, RoiInHeight, Height))]
            /\ obs' = [obs EXCEPT !.kernels = Append(@, KernelName(data)), !.kernel_in = loc.in,
                                  !.kernel_pixels = KernelPixels(data, Width, RoiInHeight, Height)]
       ELSE UNCHANGED <<mem, obs>>
  /\ pc' = "free_reconstructed"
  /\ UNCHANGED <<env, data, loc, rh, par, curve, call, gui>>

\* if(reconstructed) dt_free_align(reconstructed)
FreeReconstructed ==
  /\ pc = "free_reconstructed"
  /\ obs' = Freed(obs, {"reconstructed"})
  /\ mem' = FreeBuffers(mem, {"reconstructed"})
  /\ pc' = "alpha_copy"
  /\ UNCHANGED <<env, data, loc, rh, par, curve, call, gui>>

\* if(piece->pipe->mask_display & DT_DEV_PIXELPIPE_DISPLAY_MASK) dt_iop_alpha_copy(...)
AlphaCopy ==
  /\ pc = "alpha_copy"
  /\ \E mask_display \in BOOLEAN :
       IF mask_display
         THEN /\ mem' = [mem EXCEPT !["ovoid"] = dt_iop_alpha_copy(mem["ivoid"], @, Width, Height)]
              /\ obs' = [obs EXCEPT !.alpha_copied = TRUE]
         ELSE UNCHANGED <<mem, obs>>
  /\ pc' = "done"
  /\ UNCHANGED <<env, data, loc, rh, par, curve, call, gui>>

\* ----------------------------------------------- reconstruct_highlights
ScratchNames == {"LF_even", "LF_odd", "HF_RGB", "HF_grey", "temp"}

\* the floats each scratch buffer holds
ScratchSize(b) == IF b = "HF_grey" THEN Width * Height ELSE Width * Height * 4

\* the weights of the pass
Weights(d) == [gamma |-> d.reconstruct_structure_vs_texture,
               beta |-> d.reconstruct_grey_vs_color,
               delta |-> d.reconstruct_bloom_vs_details]

\* the swap reading the buffer the scale is about to write
DetailBufferSwapped(s, in) == IF s = 0 THEN in ELSE IF s % 2 # 0 THEN "LF_even" ELSE "LF_odd"

\* the buffer swap at the head of the loop body
DetailBuffer(s, in) == IF s = 0 THEN in ELSE IF s % 2 # 0 THEN "LF_odd" ELSE "LF_even"
\* one low-frequency buffer for all the scales
LFBufferSingle(s) == "LF_odd"

LFBuffer(s) == IF s = 0 THEN "LF_odd" ELSE IF s % 2 # 0 THEN "LF_even" ELSE "LF_odd"

\* const int mult = 1 << s
Mult(s) == 2 ^ s

\* one record of the log of a call: the stage, its scale, what it read and wrote
Event(op, s, src, dst) == [op |-> op, s |-> s, src |-> src, dst |-> dst]

\* the outcomes of the five allocations: all succeed, one of them fails, all fail
AllocOutcomes ==
  {ok \in [ScratchNames -> BOOLEAN] :
     Cardinality({b \in ScratchNames : ~ok[b]}) \in {0, 1, Cardinality(ScratchNames)}}

\* the accumulator initialised before the results of the allocations are tested
AccumulatorInitialisedAtCheck(in, mask, reconstructed) ==
  init_reconstruct(in, mask, reconstructed, Width, Height)

\* the accumulator when the results of the allocations are tested: the test
\* and its goto error come before the call of init_reconstruct
AccumulatorAtCheck(in, mask, reconstructed) == reconstructed

\* scales = get_scales(...), the five allocations and the check of their results
RhAlloc ==
  /\ pc = "rh_alloc"
  /\ \E size \in BufSizes, ok \in AllocOutcomes, fill \in Junk :
       \E scales \in get_scales(size, 1, 1) :
         /\ mem' = [b \in BufferNames |->
                      IF b \in ScratchNames
                        THEN IF ok[b] THEN Fresh(ScratchSize(b), fill) ELSE NULL
                        ELSE IF b = "reconstructed"
                          THEN AccumulatorAtCheck(mem[rh.in], mem["mask"], mem[b])
                          ELSE mem[b]]
         /\ rh' = [rh EXCEPT !.scales = scales,
                             !.success = \A b \in ScratchNames : ok[b]]
         /\ pc' = IF \A b \in ScratchNames : ok[b] THEN "rh_init" ELSE "rh_free"
         /\ obs' = [Allocated(obs, 5, Cardinality({b \in ScratchNames : ok[b]})) EXCEPT
                               !.pass1_failed = @ \/ (rh.ret = "pass1_done"
                                                      /\ \E b \in ScratchNames : ~ok[b])]
  /\ UNCHANGED <<env, data, loc, par, curve, call, gui>>

\* init_reconstruct(in, mask, reconstructed, ...)
RhInit ==
  /\ pc = "rh_init"
  /\ mem' = [mem EXCEPT !["reconstructed"] =
               init_reconstruct(mem[rh.in], mem["mask"], @, Width, Height)]
  /\ rh' = [rh EXCEPT !.s = 0, !.events = Append(@, Event("init", 0, rh.in, "reconstructed"))]
  /\ pc' = "rh_scale"
  /\ UNCHANGED <<env, data, loc, obs, par, curve, call, gui>>

\* for(int s = 0; s < scales; ++s): the test
RhScale ==
  /\ pc = "rh_scale"
  /\ pc' = IF rh.s < rh.scales THEN "rh_blur_LF_v" ELSE "rh_free"
  /\ UNCHANGED <<mem, env, data, loc, rh, obs, par, curve, call, gui>>

\* blur_2D_Bspline_vertical(detail, temp, ...)
RhBlurLFVertical ==
  /\ pc = "rh_blur_LF_v"
  /\ mem' = [mem EXCEPT !["temp"] =
               blur_2D_Bspline_vertical(mem[DetailBuffer(rh.s, rh.in)], @, Width, Height,
                                        Mult(rh.s), 0, Width - 1)]
  /\ rh' = [rh EXCEPT !.events = Append(@, Event("blur_v", rh.s, DetailBuffer(rh.s, rh.in), "temp"))]
  /\ pc' = "rh_blur_LF_h"
  /\ UNCHANGED <<env, data, loc, obs, par, curve, call, gui>>

\* blur_2D_Bspline_horizontal(temp, LF, ...)
RhBlurLFHorizontal ==
  /\ pc = "rh_blur_LF_h"
  /\ mem' = [mem EXCEPT ![LFBuffer(rh.s)] =
               blur_2D_Bspline_horizontal(mem["temp"], @, Width, Height, Mult(rh.s), 0, Height - 1)]
  /\ rh' = [rh EXCEPT !.events = Append(@, Event("blur_h", rh.s, "temp", LFBuffer(rh.s)))]
  /\ pc' = "rh_detail"
  /\ UNCHANGED <<env, data, loc, obs, par, curve, call, gui>>

\* wavelets_detail_level_RGB / _ratios (detail, LF, HF_RGB, HF_grey, ...)
RhDetail ==
  /\ pc = "rh_detail"
  /\ LET r == wavelets_detail_level(mem[DetailBuffer(rh.s, rh.in)], mem[LFBuffer(rh.s)],
                                    mem["HF_RGB"], mem["HF_grey"], rh.variant, Width, Height)
     IN  mem' = [mem EXCEPT !["HF_RGB"] = r[1], !["HF_grey"] = r[2]]
  /\ rh' = [rh EXCEPT !.events = Append(@, Event("detail", rh.s, DetailBuffer(rh.s, rh.in), "HF_RGB"))]
  /\ pc' = "rh_blur_HF_v"
  /\ UNCHANGED <<env, data, loc, obs, par, curve, call, gui>>

\* blur_2D_Bspline_vertical(HF_RGB, temp, ...)
RhBlurHFVertical ==
  /\ pc = "rh_blur_HF_v"
  /\ mem' = [mem EXCEPT !["temp"] =
               blur_2D_Bspline_vertical(mem["HF_RGB"], @, Width, Height, Mult(rh.s), 0, Width - 1)]
  /\ rh' = [rh EXCEPT !.events = Append(@, Event("blur_v", rh.s, "HF_RGB", "temp"))]
  /\ pc' = "rh_blur_HF_h"
  /\ UNCHANGED <<env, data, loc, obs, par, curve, call, gui>>

\* blur_2D_Bspline_horizontal(temp, HF_RGB, ...)
RhBlurHFHorizontal ==
  /\ pc = "rh_blur_HF_h"
  /\ mem' = [mem EXCEPT !["HF_RGB"] =
               blur_2D_Bspline_horizontal(mem["temp"], @, Width, Height, Mult(rh.s), 0, Height - 1)]
  /\ rh' = [rh EXCEPT !.events = Append(@, Event("blur_h", rh.s, "temp", "HF_RGB"))]
  /\ pc' = "rh_reconstruct"
  /\ UNCHANGED <<env, data, loc, obs, par, curve, call, gui>>

\* wavelets_reconstruct_RGB / _ratios (HF_RGB, LF, HF_grey, mask, reconstructed, ...); ++s
RhReconstruct ==
  /\ pc = "rh_reconstruct"
  /\ mem' = [mem EXCEPT !["reconstructed"] =
               wavelets_reconstruct(mem["HF_RGB"], mem[LFBuffer(rh.s)], mem["HF_grey"], mem["mask"],
                                    @, rh.variant, Weights(data), rh.scales, Width, Height)]
  /\ rh' = [rh EXCEPT !.s = @ + 1,
                      !.events = Append(@, Event("reconstruct", rh.s, LFBuffer(rh.s), "reconstructed"))]
  /\ pc' = "rh_scale"
  /\ UNCHANGED <<env, data, loc, obs, par, curve, call, gui>>

\* error: the five conditional frees, and return success; the five pointers
\* leave scope with the return and are not kept among the dangling ones
RhFree ==
  /\ pc = "rh_free"
  /\ obs' = [obs EXCEPT !.frees = @ + Live(ScratchNames),
                        !.double_frees = @ + Cardinality(ScratchNames \cap obs.dangling)]
  /\ mem' = FreeBuffers(mem, ScratchNames)
  /\ pc' = rh.ret
  /\ UNCHANGED <<env, data, loc, rh, par, curve, call, gui>>

RhNext ==
  \/ RhAlloc \/ RhInit \/ RhScale \/ RhBlurLFVertical \/ RhBlurLFHorizontal \/ RhDetail
  \/ RhBlurHFVertical \/ RhBlurHFHorizontal \/ RhReconstruct \/ RhFree

Next ==
  \/ CheckColors \/ AllocMask \/ MaskClippedPixels \/ MaskClippedPixelsNull \/ Preview
  \/ AllocReconstructed \/ Recover \/ Pass1Done \/ AllocRatios \/ ComputeRatios \/ Pass2Done
  \/ FreeRatios \/ SelectInput \/ FreeMask \/ Kernel \/ FreeReconstructed \/ AlphaCopy
  \/ RhNext

Spec == Init /\ [][Next]_vars

\* ------------------------------------- reconstruct_highlights on its own
\* the masks handed to the call: no pixel clipped, every other pixel fully
\* clipped, every pixel clipped by a third
ReconMasks ==
  { [p \in Pixels(Width, Height) |-> 0],
    [p \in Pixels(Width, Height) |-> IF p % 2 = 0 THEN Unit ELSE 0],
    [p \in Pixels(Width, Height) |-> Unit \div 3] }

\* the bright pixel counts of the images handed to the call
ReconBright == {3, Width * Height}

\* a call of reconstruct_highlights(in, mask, reconstructed, variant, ...) with
\* any of the masks, either variant and any of the weights
InitRecon ==
  /\ pc = "rh_alloc"
  /\ \E bright \in ReconBright, m \in ReconMasks, fill \in Junk :
       mem = [b \in BufferNames |->
                IF b = "ivoid" THEN Image(Width, Height, bright)
                ELSE IF b = "ovoid" THEN OutBefore
                ELSE IF b = "mask" THEN m
                ELSE IF b = "reconstructed" THEN Fresh(Width * Height * ch, fill)
                ELSE NULL]
  /\ env = Env(4, FALSE, FALSE, FALSE, TRUE)
  /\ \E p \in ParamSets : data = commit_params(p)
  /\ loc = LocInit
  /\ \E variant \in {0, 1} : rh = RhCall("ivoid", variant, "done")
  /\ obs = ObsInit
  /\ par = ParIdle
  /\ curve = CurveIdle
  /\ call = CallIdle
  /\ gui = GuiIdle

SpecRecon == InitRecon /\ [][RhNext]_vars

\* ------------------------------------------- the data-parallel stages
\* Every loop over the pixels is an OpenMP parallel for: its iterations run
\* in any order.  One stage is run here on a ParWidth x ParHeight region, one
\* iteration per step, the iterations taken in any order.
ParStages ==
  {"mask", "init", "blur_LF_v", "blur_LF_h", "detail", "blur_HF_v", "blur_HF_h",
   "reconstruct", "compute_ratios", "restore_ratios", "kernel"}

\* a stage with the buffers of the blur exchanged for one buffer
StageBuffersInPlace(stage) ==
  CASE stage = "mask" -> [in |-> "ivoid", mask |-> "mask"]
    [] stage = "init" -> [in |-> "ivoid", mask |-> "mask", reconstructed |-> "reconstructed"]
    [] stage = "blur_LF_v" -> [in |-> "ivoid", out |-> "ivoid"]
    [] stage = "blur_LF_h" -> [in |-> "temp", out |-> "temp"]
    [] stage = "detail" ->
         [detail |-> "ivoid", LF |-> "LF_odd", HF |-> "HF_RGB", texture |-> "HF_grey"]
    [] stage = "blur_HF_v" -> [in |-> "HF_RGB", out |-> "HF_RGB"]
    [] stage = "blur_HF_h" -> [in |-> "temp", out |-> "temp"]
    [] stage = "reconstruct" ->
         [HF |-> "HF_RGB", LF |-> "LF_odd", texture |-> "HF_grey", mask |-> "mask",
          reconstructed |-> "reconstructed"]
    [] stage = "compute_ratios" -> [in |-> "reconstructed", norms |-> "norms", ratios |-> "ratios"]
    [] stage = "restore_ratios" -> [ratios |-> "reconstructed", norms |-> "norms"]
    [] stage = "kernel" -> [in |-> "ivoid", out |-> "ovoid"]

\* the buffer each parameter of a stage is bound to where process and
\* reconstruct_highlights call it (scale 0 of the first pass)
StageBuffers(stage) ==
  CASE stage = "mask" -> [in |-> "ivoid", mask |-> "mask"]
    [] stage = "init" -> [in |-> "ivoid", mask |-> "mask", reconstructed |-> "reconstructed"]
    [] stage = "blur_LF_v" -> [in |-> "ivoid", out |-> "temp"]
    [] stage = "blur_LF_h" -> [in |-> "temp", out |-> "LF_odd"]
    [] stage = "detail" ->
         [detail |-> "ivoid", LF |-> "LF_odd", HF |-> "HF_RGB", texture |-> "HF_grey"]
    [] stage = "blur_HF_v" -> [in |-> "HF_RGB", out |-> "temp"]
    [] stage = "blur_HF_h" -> [in |-> "temp", out |-> "HF_RGB"]
    [] stage = "reconstruct" ->
         [HF |-> "HF_RGB", LF |-> "LF_odd", texture |-> "HF_grey", mask |-> "mask",
          reconstructed |-> "reconstructed"]
    [] stage = "compute_ratios" -> [in |-> "reconstructed", norms |-> "norms", ratios |-> "ratios"]
    [] stage = "restore_ratios" -> [ratios |-> "reconstructed", norms |-> "norms"]
    [] stage = "kernel" -> [in |-> "ivoid", out |-> "ovoid"]

\* the buffers a stage stores into
StageWrites(stage, B) ==
  CASE stage = "mask" -> {B.mask}
    [] stage = "init" -> {B.reconstructed}
    [] stage \in {"blur_LF_v", "blur_LF_h", "blur_HF_v", "blur_HF_h"} -> {B.out}
    [] stage = "detail" -> {B.HF, B.texture}
    [] stage = "reconstruct" -> {B.reconstructed}
    [] stage = "compute_ratios" -> {B.norms, B.ratios}
    [] stage = "restore_ratios" -> {B.ratios}
    [] stage = "kernel" -> {B.out}

\* the buffers a stage reads at the indices of other pixels: the taps of the blur
StageNeighbourReads(stage, B) ==
  IF stage \in {"blur_LF_v", "blur_LF_h", "blur_HF_v", "blur_HF_h"} THEN {B.in} ELSE {}

\* the buffers with one float per pixel; the others have ch floats per pixel
OneChannel == {"mask", "norms", "HF_grey"}

\* the content of the buffers when the stage starts
ParOffset(name) ==
  CASE name = "ivoid" -> 0
    [] name = "ovoid" -> Unit \div 64
    [] name = "reconstructed" -> Unit \div 32
    [] name = "ratios" -> Unit \div 16
    [] name = "LF_even" -> Unit \div 8
    [] name = "LF_odd" -> Unit \div 4
    [] name = "HF_RGB" -> -(Unit \div 2)
    [] name = "temp" -> Unit
    [] OTHER -> 0

ParContent(name, seed) ==
  IF name \in OneChannel
    THEN [p \in Pixels(ParWidth, ParHeight) |-> ((p + seed) * Unit) \div (ParWidth * ParHeight + 1)]
    ELSE [k \in 0 .. (ParWidth * ParHeight * ch - 1) |->
            ImagePixel(k \div ch, 1 + 2 * seed)[(k % ch) + 1] + ParOffset(name) * ((k % 3) - 1)]

\* iteration p of a stage, on the buffers as they are now: seed gives the
\* variant of the pass (0 RGB, 1 ratios), the scale s = seed and scales = seed + 1
ParIter(stage, B, bufs, d, seed, p) ==
  CASE stage = "mask" ->
         [bufs EXCEPT ![B.mask] = MaskIter(bufs[B.in], @, Normalize(d), d.reconstruct_feather, p)]
    [] stage = "init" ->
         [bufs EXCEPT ![B.reconstructed] =
            InitReconstructLoop(bufs[B.in], bufs[B.mask], @, p * ch, (p + 1) * ch)]
    [] stage \in {"blur_LF_v", "blur_HF_v"} ->
         [bufs EXCEPT ![B.out] = BlurVIter(bufs[B.in], @, ParWidth, Mult(seed), 0, ParWidth - 1, p)]
    [] stage \in {"blur_LF_h", "blur_HF_h"} ->
         [bufs EXCEPT ![B.out] =
            BlurHIter(bufs[B.in], @, ParWidth, ParHeight, Mult(seed), 0, ParHeight - 1, p)]
    [] stage = "detail" ->
         [bufs EXCEPT ![B.HF] = DetailHFIter(bufs[B.detail], bufs[B.LF], @, p),
                      ![B.texture] = DetailTextureIter(
                                       DetailHFIter(bufs[B.detail], bufs[B.LF], bufs[B.HF], p),
                                       @, seed, p)]
    [] stage = "reconstruct" ->
         [bufs EXCEPT ![B.reconstructed] =
            ReconstructIter(bufs[B.HF], bufs[B.LF], bufs[B.texture], bufs[B.mask], @,
                            seed, Weights(d), seed + 1, p)]
    [] stage = "compute_ratios" ->
         [bufs EXCEPT ![B.norms] = ComputeRatiosNormIter(bufs[B.in], @, d.preserve_color, TRUE, p),
                      ![B.ratios] = ComputeRatiosIter(
                                      bufs[B.in],
                                      ComputeRatiosNormIter(bufs[B.in], bufs[B.norms],
                                                            d.preserve_color, TRUE, p),
                                      @, p)]
    [] stage = "restore_ratios" ->
         [bufs EXCEPT ![B.ratios] = RestoreRatiosIter(@, bufs[B.norms], p)]
    [] stage = "kernel" ->
         [bufs EXCEPT ![B.out] = KernelIter(bufs[B.in], @, d, TRUE, p)]

\* the stage run by one thread, its iterations in the order of the loop
ParSequential(stage, B, bufs, d, seed) ==
  CASE stage = "mask" ->
         [bufs EXCEPT ![B.mask] =
            mask_clipped_pixels(bufs[B.in], @, Normalize(d), d.reconstruct_feather,
                                ParWidth, ParHeight).mask]
    [] stage = "init" ->
         [bufs EXCEPT ![B.reconstructed] =
            init_reconstruct(bufs[B.in], bufs[B.mask], @, ParWidth, ParHeight)]
    [] stage \in {"blur_LF_v", "blur_HF_v"} ->
         [bufs EXCEPT ![B.out] =
            blur_2D_Bspline_vertical(bufs[B.in], @, ParWidth, ParHeight, Mult(seed), 0, ParWidth - 1)]
    [] stage \in {"blur_LF_h", "blur_HF_h"} ->
         [bufs EXCEPT ![B.out] =
            blur_2D_Bspline_horizontal(bufs[B.in], @, ParWidth, ParHeight, Mult(seed), 0,
                                       ParHeight - 1)]
    [] stage = "detail" ->
         [bufs EXCEPT ![B.HF] = wavelets_detail_level(bufs[B.detail], bufs[B.LF], @,
                                                      bufs[B.texture], seed, ParWidth, ParHeight)[1],
                      ![B.texture] = wavelets_detail_level(bufs[B.detail], bufs[B.LF], bufs[B.HF],
                                                           @, seed, ParWidth, ParHeight)[2]]
    [] stage = "reconstruct" ->
         [bufs EXCEPT ![B.reconstructed] =
            wavelets_reconstruct(bufs[B.HF], bufs[B.LF], bufs[B.texture], bufs[B.mask], @,
                                 seed, Weights(d), seed + 1, ParWidth, ParHeight)]
    [] stage = "compute_ratios" ->
         [bufs EXCEPT ![B.norms] = compute_ratios(bufs[B.in], @, bufs[B.ratios], d.preserve_color,
                                                  TRUE, ParWidth, ParHeight)[1],
                      ![B.ratios] = compute_ratios(bufs[B.in], bufs[B.norms], @, d.preserve_color,
                                                   TRUE, ParWidth, ParHeight)[2]]
    [] stage = "restore_ratios" ->
         [bufs EXCEPT ![B.ratios] = restore_ratios(@, bufs[B.norms], ParWidth, ParHeight)]
    [] stage = "kernel" ->
         [bufs EXCEPT ![B.out] = KernelLoop(bufs[B.in], @, d, TRUE, 0, ParWidth * ParHeight)]

\* what iteration p adds to the reduction variable clipped
ParClipped(stage, B, bufs, d, p) ==
  IF stage = "mask"
    THEN ClippedIncrement(MaskArgument(bufs[B.in], Normalize(d), d.reconstruct_feather, p))
    ELSE 0

InitPar ==
  /\ pc = "par_idle"
  /\ mem = [b \in BufferNames |-> NULL]
  /\ env = Env(4, FALSE, FALSE, FALSE, TRUE)
  /\ \E p \in ParamSets : data = commit_params(p)
  /\ loc = LocInit
  /\ rh = RhIdle
  /\ obs = ObsInit
  /\ par = ParIdle
  /\ curve = CurveIdle
  /\ call = CallIdle
  /\ gui = GuiIdle

\* the stage is entered: no iteration has run
ParStart ==
  /\ pc = "par_idle"
  /\ \E stage \in ParStages, seed \in {0, 1} :
       par' = [stage |-> stage, seed |-> seed,
               start |-> [b \in BufferNames |-> ParContent(b, seed)],
               bufs |-> [b \in BufferNames |-> ParContent(b, seed)],
               todo |-> Pixels(ParWidth, ParHeight), clipped |-> 0]
  /\ pc' = "par_run"
  /\ UNCHANGED <<mem, env, data, loc, rh, obs, curve, call, gui>>

\* any iteration that has not run yet runs
ParStep ==
  /\ pc = "par_run"
  /\ \E p \in par.todo :
       par' = [par EXCEPT !.bufs = ParIter(par.stage, StageBuffers(par.stage), @, data, par.seed, p),
                          !.todo = @ \ {p},
                          !.clipped = @ + ParClipped(par.stage, StageBuffers(par.stage),
                                                     par.bufs, data, p)]
  /\ UNCHANGED <<pc, mem, env, data, loc, rh, obs, curve, call, gui>>

\* the implicit barrier at the end of the loop
ParJoin ==
  /\ pc = "par_run"
  /\ par.todo = {}
  /\ pc' = "par_done"
  /\ UNCHANGED <<mem, env, data, loc, rh, obs, par, curve, call, gui>>

NextPar == ParStart \/ ParStep \/ ParJoin

SpecPar == InitPar /\ [][NextPar]_vars

\* ------------------------------------------------- the curve on its own
\* the parameter sets the curve is built from: balance, latitude and contrast
\* within the ranges of their sliders, both orders of the toe and shoulder
CurveBalances == {0, 12, 50}
CurveLatitudes == {20, 40}
CurveContrasts == {10000, 13000, 15000}

\* a contrast far below grey_display / grey_log, on third order curves: the
\* fourth order systems it gives have pivots of a few units in the last place
CurveLowContrasts == {5000}

CurveParams ==
  { [DefaultParams EXCEPT !.balance = b * Unit, !.latitude = l * Unit, !.contrast = Dec4(c),
                          !.shadows = o, !.highlights = o] :
      b \in CurveBalances, l \in CurveLatitudes, c \in CurveContrasts,
      o \in {DT_FILMIC_CURVE_POLY_4, DT_FILMIC_CURVE_POLY_3} }
  \cup
  { [DefaultParams EXCEPT !.balance = b * Unit, !.latitude = l * Unit, !.contrast = Dec4(c),
                          !.shadows = DT_FILMIC_CURVE_POLY_3,
                          !.highlights = DT_FILMIC_CURVE_POLY_3] :
      b \in CurveBalances, l \in CurveLatitudes, c \in CurveLowContrasts }

\* pixels whose power norm is the source grey: a grey one and two saturated ones
GreyPixels(grey) == {<<grey, grey, grey>>, <<grey, 0, 0>>, <<0, grey, 0>>}

InitCurve ==
  /\ pc = "curve_params"
  /\ mem = [b \in BufferNames |-> NULL]
  /\ env = Env(4, FALSE, FALSE, FALSE, TRUE)
  /\ data = NULL
  /\ loc = LocInit
  /\ rh = RhIdle
  /\ obs = ObsInit
  /\ par = ParIdle
  /\ \E p \in CurveParams : curve = [p |-> p, node |-> <<>>, grey |-> NULL, edge |-> NULL]
  /\ call = CallIdle
  /\ gui = GuiIdle

\* commit_params: the parameters become piece->data, the spline with them
CurveCommit ==
  /\ pc = "curve_params"
  /\ data' = commit_params(curve.p)
  /\ pc' = "curve_ready"
  /\ UNCHANGED <<mem, env, loc, rh, obs, par, curve, call, gui>>

\* filmic_spline at the abscissa of node i: 1 toe, 2 grey, 3 shoulder
CurveEvalNode ==
  /\ pc = "curve_ready"
  /\ \E i \in {1, 2, 3} \ DOMAIN curve.node :
       curve' = [curve EXCEPT !.node =
                   [j \in DOMAIN curve.node \cup {i} |->
                      IF j = i THEN filmic_spline(data.spline.x[i], data.spline)
                               ELSE curve.node[j]]]
  /\ UNCHANGED <<pc, mem, env, data, loc, rh, obs, par, call, gui>>

\* what filmic_chroma_v2 computes for one pixel: its norm, the norm after the
\* log encoding, after the curve, after the display power, and pix_out
TonePixel(pix, d, norm) ==
  [pix_in |-> pix,
   norm_in |-> norm,
   norm_log |-> ChromaV2LogNorm(norm, d),
   curved |-> filmic_spline(ChromaV2LogNorm(norm, d), d.spline),
   norm_out |-> CurveAndPower(ChromaV2LogNorm(norm, d), d),
   pix_out |-> ChromaV2FromNorm(pix, d, norm)]

\* the tone kernel on a pixel at the source grey
CurveToneGrey ==
  /\ pc = "curve_ready"
  /\ curve.grey = NULL
  /\ \E pix \in GreyPixels(data.grey_source) :
       curve' = [curve EXCEPT !.grey =
                   TonePixel(pix, data, FloorNorm(get_pixel_norm(pix, data.preserve_color, TRUE)))]
  /\ UNCHANGED <<pc, mem, env, data, loc, rh, obs, par, call, gui>>

\* the curve on both sides of its two segment boundaries: the toe and the
\* central polynomial at latitude_min, the shoulder and the central polynomial
\* at latitude_max, and filmic_spline one unit in the last place outside them
EdgeValues(spline) ==
  [toe_at_min |-> SplinePolynomial(spline.latitude_min, spline, 0),
   central_at_min |-> SplinePolynomial(spline.latitude_min, spline, 2),
   shoulder_at_max |-> SplinePolynomial(spline.latitude_max, spline, 1),
   central_at_max |-> SplinePolynomial(spline.latitude_max, spline, 2),
   below_min |-> filmic_spline(spline.latitude_min - 1, spline),
   on_min |-> filmic_spline(spline.latitude_min, spline),
   on_max |-> filmic_spline(spline.latitude_max, spline),
   above_max |-> filmic_spline(spline.latitude_max + 1, spline)]

\* filmic_spline evaluated around latitude_min and latitude_max
CurveEvalEdge ==
  /\ pc = "curve_ready"
  /\ curve.edge = NULL
  /\ curve' = [curve EXCEPT !.edge = EdgeValues(data.spline)]
  /\ UNCHANGED <<pc, mem, env, data, loc, rh, obs, par, call, gui>>

NextCurve == CurveCommit \/ CurveEvalNode \/ CurveToneGrey \/ CurveEvalEdge

SpecCurve == InitCurve /\ [][NextCurve]_vars

\* ------------------------------------- the functions called on their own
\* get_scales, get_pixel_norm and the body of filmic_chroma_v2 are functions
\* of their arguments: each is called once on arguments drawn from the sets
\* below, and the call with its result is kept in call.

\* MAX(buf_in.width, buf_in.height) * iscale, from a region of one pixel on
RegionSizes == {1, 5, 10, 11, 20, 29, 30, 59, 60, 1000, 100000}

\* roi_in->scale / iscale as the fraction z[1] / z[2]
ZoomScales == {<<1, 1>>, <<1, 2>>, <<1, 8>>, <<2, 1>>}

\* channel values around zero, of either sign
SmallValues == {-(Unit \div 16), -(Unit \div 64), 0, Unit \div 64, Unit \div 16}

SmallPixels == {<<r, g, b>> : r \in SmallValues, g \in SmallValues, b \in SmallValues}

\* pixels at the source grey, at 1, far above white (white is 2^3.45 times
\* the grey) and with one negative channel beside large ones
BrightPixels ==
  { <<Dec4(1845), Dec4(1845), Dec4(1845)>>,
    <<Unit, Unit, Unit>>,
    <<2 * Unit, Unit, Unit \div 2>>,
    <<16 * Unit, 16 * Unit, 16 * Unit>>,
    <<16 * Unit, 0, 0>>,
    <<0, 16 * Unit, Unit>>,
    <<0, 0, 16 * Unit>>,
    <<-2 * Unit, Unit, 16 * Unit>>,
    <<4 * Unit, -Unit, 2 * Unit>>,
    <<12 * Unit, 16 * Unit, -(Unit \div 2)>> }

FnPixels == SmallPixels \cup BrightPixels

NormMethods == {DT_FILMIC_METHOD_NONE, DT_FILMIC_METHOD_MAX_RGB,
                DT_FILMIC_METHOD_LUMINANCE, DT_FILMIC_METHOD_POWER_NORM}

\* the parameter sets of the calls: saturation 0, 10 and -25
FnParamSets ==
  { DefaultParams,
    [DefaultParams EXCEPT !.saturation = 10 * Unit],
    [DefaultParams EXCEPT !.saturation = -25 * Unit] }

InitFn ==
  /\ pc = "call"
  /\ mem = [b \in BufferNames |-> NULL]
  /\ env \in {Env(4, FALSE, FALSE, FALSE, TRUE), Env(4, FALSE, FALSE, FALSE, FALSE)}
  /\ \E p \in FnParamSets : data = commit_params(p)
  /\ loc = LocInit
  /\ rh = RhIdle
  /\ obs = ObsInit
  /\ par = ParIdle
  /\ curve = CurveIdle
  /\ call = CallIdle
  /\ gui = GuiIdle

\* get_scales(roi_in, piece)
CallGetScales ==
  /\ pc = "call"
  /\ call = CallIdle
  /\ \E size \in RegionSizes, z \in ZoomScales :
       \E r \in get_scales(size, z[1], z[2]) :
         call' = [fn |-> "get_scales", size |-> size, scale |-> z, result |-> r]
  /\ UNCHANGED <<pc, mem, env, data, loc, rh, obs, par, curve, gui>>

\* get_pixel_norm(pixel, variant, work_profile)
CallGetPixelNorm ==
  /\ pc = "call"
  /\ call = CallIdle
  /\ \E pix \in FnPixels, variant \in NormMethods :
       call' = [fn |-> "get_pixel_norm", pixel |-> pix, variant |-> variant,
                result |-> get_pixel_norm(pix, variant, env.work_profile)]
  /\ UNCHANGED <<pc, mem, env, data, loc, rh, obs, par, curve, gui>>

\* the body of filmic_chroma_v2 on one pixel, with the ratios after the
\* saturation change and the norm after curve and power it recombines
ChromaV2Call(pix, d, work_profile, variant) ==
  LET norm == FloorNorm(get_pixel_norm(pix, variant, work_profile))
      norm_log == ChromaV2LogNorm(norm, d)
  IN  [fn |-> "filmic_chroma_v2", pixel |-> pix, variant |-> variant, norm |-> norm,
       ratios |-> ChromaV2Saturate(SanitizedRatios(pix, norm),
                                   filmic_desaturate_v2(norm_log, d.sigma_toe, d.sigma_shoulder,
                                                        d.saturation)),
       norm_out |-> CurveAndPower(norm_log, d),
       result |-> filmic_chroma_v2_pixel(pix, d, work_profile, variant)]

CallChromaV2 ==
  /\ pc = "call"
  /\ call = CallIdle
  /\ \E pix \in FnPixels, variant \in NormMethods :
       call' = ChromaV2Call(pix, data, env.work_profile, variant)
  /\ UNCHANGED <<pc, mem, env, data, loc, rh, obs, par, curve, gui>>

\* sizes of a line of the image: every small one, and larger ones that reach
\* the unchecked path of the widest dilations
BlurSizes == (1 .. MaxBlurSize) \cup {4097, 8192, 8198, 10000}

\* the positions sampled on a line: all of a small one; on a large one both
\* ends and those around the two thresholds 2 * mult and size - 2 * mult
BlurPositions(size, mult) ==
  IF size <= MaxBlurSize THEN 0 .. size - 1
  ELSE {x \in {0, size - 1} \cup {2 * mult + e : e \in -1 .. 1}
                            \cup {size - 2 * mult + e : e \in -1 .. 1} : x \in 0 .. size - 1}

\* the five taps of one output pixel of a blur pass: position j along a line
\* of width pixels (vertical pass, bounds 0 and width - 1) or position i
\* along a column of height pixels (horizontal pass, bounds 0 and height - 1)
BlurTaps(pass, size, mult, pos) ==
  [fn |-> "blur_taps", pass |-> pass, size |-> size, mult |-> mult, pos |-> pos,
   check |-> BoundCheck(pos, size, mult),
   taps |-> [jj \in 0 .. fsize - 1 |-> TapIndex(pos, jj, size, mult, 0, size - 1)]]

CallBlurTaps ==
  /\ pc = "call"
  /\ call = CallIdle
  /\ \E pass \in {"vertical", "horizontal"}, size \in BlurSizes, s \in 0 .. MAX_NUM_SCALES - 1 :
       \E pos \in BlurPositions(size, Mult(s)) :
         call' = BlurTaps(pass, size, Mult(s), pos)
  /\ UNCHANGED <<pc, mem, env, data, loc, rh, obs, par, curve, gui>>

NextFn == CallGetScales \/ CallGetPixelNorm \/ CallChromaV2 \/ CallBlurTaps

SpecFn == InitFn /\ [][NextFn]_vars

\* ======================================================= the module's GUI
\* The callbacks of the sliders, comboboxes and toggles and the applications
\* of the colour picker, each a function from the GUI before the handler to
\* the GUI after it.  g.p is self->params, g.reset is darktable.gui->reset,
\* g.picker is g->color_picker.current_picker and g.history counts the calls
\* of dt_dev_add_history_item.

\* the floats that are not finite: a quotient by zero is an infinity or a
\* NaN, and so is the logarithm of zero or of a negative number
PosInf == 8192 * Unit
NegInf == -PosInf
NaN == PosInf + 1
IsFinite(x) == x \notin {PosInf, NegInf, NaN}

\* a / b on floats, b = 0 included (the zeros of the model are +0)
FloatDiv(a, b) ==
  IF a = NaN \/ b = NaN THEN NaN
  ELSE IF ~IsFinite(a) THEN (IF ~IsFinite(b) THEN NaN
                             ELSE IF (a = PosInf) = (b >= 0) THEN PosInf ELSE NegInf)
  ELSE IF ~IsFinite(b) THEN 0
  ELSE IF b = 0 THEN (IF a = 0 THEN NaN ELSE IF a > 0 THEN PosInf ELSE NegInf)
  ELSE Div(a, b)

\* logf(x) = log2f(x) * ln 2 for x > 0
logf(x) == Mul(log2f(x), (6931 * Unit) \div 10000)

\* logf on every float
FloatLog(x) ==
  IF x = NaN \/ x = NegInf THEN NaN
  ELSE IF x = PosInf THEN PosInf
  ELSE IF x < 0 THEN NaN
  ELSE IF x = 0 THEN NegInf
  ELSE logf(x)

DT_PICKPROFLOG_NONE == 0
DT_PICKPROFLOG_GREY_POINT == 1
DT_PICKPROFLOG_BLACK_POINT == 2
DT_PICKPROFLOG_WHITE_POINT == 3
DT_PICKPROFLOG_AUTOTUNE == 4

\* logf(grey_point_target / 100) / logf(-black / (white - black)): the
\* hardness that keeps the middle grey on the identity line
AutoHardness(p) ==
  FloatDiv(logf(Div(p.grey_point_target, 100 * Unit)),
           FloatLog(FloatDiv(-p.black_point_source,
                             p.white_point_source - p.black_point_source)))

\* if(self->dt->gui->reset) return;
ResetGuard(g) == g.reset # 0

\* darktable.gui->reset = reset, after the widget updates
RestoreResetToZero(g, reset) == [g EXCEPT !.reset = 0]

RestoreReset(g, reset) == [g EXCEPT !.reset = reset]

\* dt_iop_color_picker_reset(self, TRUE)
dt_iop_color_picker_reset(g) == [g EXCEPT !.picker = DT_PICKPROFLOG_NONE]

\* dt_dev_add_history_item(darktable.develop, self, TRUE)
dt_dev_add_history_item(g) == [g EXCEPT !.history = @ + 1]

\* the callbacks that store the slider, combobox or toggle in one field:
\* the field, and whether the callback resets the picker
PlainCallbacks ==
  [reconstruct_threshold |-> FALSE, reconstruct_feather |-> FALSE,
   reconstruct_bloom_vs_details |-> FALSE, reconstruct_grey_vs_color |-> FALSE,
   reconstruct_structure_vs_texture |-> FALSE, grey_point_target |-> TRUE,
   latitude |-> TRUE, contrast |-> TRUE, saturation |-> TRUE,
   white_point_target |-> TRUE, black_point_target |-> TRUE, balance |-> TRUE,
   version |-> FALSE, preserve_color |-> FALSE, shadows |-> FALSE,
   highlights |-> FALSE, high_quality_reconstruction |-> FALSE]

\* p->field = the widget's value, then the history item
plain_callback(g, field, v) ==
  IF ResetGuard(g) THEN g
  ELSE LET g1 == [g EXCEPT !.p[field] = v]
           g2 == IF PlainCallbacks[field] THEN dt_iop_color_picker_reset(g1) ELSE g1
       IN  dt_dev_add_history_item(g2)

\* dt_bauhaus_slider_set_soft(widget, value): the slider emits value-changed
\* and the callback of the widget is entered; behind its guard it would store
\* the value again and add a history item, which reentered records
dt_bauhaus_slider_set_soft(g, widget) ==
  IF ResetGuard(g) THEN g ELSE dt_dev_add_history_item([g EXCEPT !.reentered = TRUE])

\* const int reset = darktable.gui->reset; darktable.gui->reset = 1;
\* the set_soft calls on the widgets; darktable.gui->reset = reset
RECURSIVE SetSoftEach(_, _)
SetSoftEach(g, widgets) ==
  IF widgets = <<>> THEN g
  ELSE SetSoftEach(dt_bauhaus_slider_set_soft(g, Head(widgets)), Tail(widgets))

UpdateWidgets(g, widgets) ==
  RestoreReset(SetSoftEach([g EXCEPT !.reset = 1], widgets), g.reset)

\* p->output_power = logf(...) / logf(...), whatever auto_hardness is
HardnessAlways(g) == [g EXCEPT !.p.output_power = AutoHardness(g.p)]

\* if(p->auto_hardness) p->output_power = logf(...) / logf(...)
HardnessIfAuto(g) == IF g.p.auto_hardness THEN HardnessAlways(g) ELSE g

output_power_callback(g, v) ==
  IF ResetGuard(g) THEN g
  ELSE dt_dev_add_history_item(dt_iop_color_picker_reset([g EXCEPT !.p.output_power = v]))

\* the shift of the white and black points by the change of the grey
GreyShift(g, prev_grey) ==
  LET grey_var == log2f(Div(prev_grey, g.p.grey_point_source))
  IN  [g EXCEPT !.p.black_point_source = @ - grey_var,
                !.p.white_point_source = @ + grey_var]

grey_point_source_callback(g, v) ==
  IF ResetGuard(g) THEN g
  ELSE LET g1 == GreyShift([g EXCEPT !.p.grey_point_source = v], g.p.grey_point_source)
           g2 == UpdateWidgets(HardnessIfAuto(g1),
                               <<"white_point_source", "black_point_source", "output_power">>)
       IN  dt_dev_add_history_item(dt_iop_color_picker_reset(g2))

\* white_point_source_callback and black_point_source_callback: the slider
\* is stored in field, and the hardness slider is updated under auto_hardness
point_source_callback(g, field, v) ==
  IF ResetGuard(g) THEN g
  ELSE LET g1 == HardnessIfAuto([g EXCEPT !.p[field] = v])
           g2 == IF g1.p.auto_hardness THEN UpdateWidgets(g1, <<"output_power">>) ELSE g1
       IN  dt_dev_add_history_item(dt_iop_color_picker_reset(g2))

white_point_source_callback(g, v) == point_source_callback(g, "white_point_source", v)

black_point_source_callback(g, v) == point_source_callback(g, "black_point_source", v)

\* EV + ratio * EV with ratio = (security_factor - previous) / (previous + 100)
SecurityScaled(EV, ratio) == EV + Mul(ratio, EV)

security_threshold_callback(g, v) ==
  IF ResetGuard(g) THEN g
  ELSE LET ratio == Div(v - g.p.security_factor, g.p.security_factor + 100 * Unit)
           g1 == [g EXCEPT !.p.security_factor = v,
                           !.p.white_point_source = SecurityScaled(@, ratio),
                           !.p.black_point_source = SecurityScaled(@, ratio)]
           g2 == UpdateWidgets(HardnessIfAuto(g1),
                               <<"white_point_source", "black_point_source", "output_power">>)
       IN  dt_dev_add_history_item(dt_iop_color_picker_reset(g2))

\* show_mask_callback: g->show_mask = !g->show_mask, no parameter and no
\* history item
show_mask_callback(g) ==
  IF ResetGuard(g) THEN g ELSE [g EXCEPT !.show_mask = ~@]

\* custom_grey_callback: the two gtk_widget_set_visible calls are made with
\* reset at 1 and emit no value-changed
custom_grey_callback(g, v) ==
  IF ResetGuard(g) THEN g
  ELSE dt_dev_add_history_item(UpdateWidgets([g EXCEPT !.p.custom_grey = v], <<>>))

auto_hardness_callback(g, v) ==
  IF ResetGuard(g) THEN g
  ELSE LET g1 == [g EXCEPT !.p.auto_hardness = v]
           g2 == IF v THEN UpdateWidgets(HardnessAlways(g1), <<"output_power">>) ELSE g1
       IN  dt_dev_add_history_item(g2)

\* ---- the applications of the colour picker
\* EV * (1 + security_factor / 100)
WithSecurity(EV, p) == Mul(EV, Unit + Div(p.security_factor, 100 * Unit))

\* CLAMP(100 * get_pixel_norm(picked_color) / 2, 0.001, 100)
PickedGrey(p, picked, work_profile) ==
  CLAMP(Mul(100 * Unit, Div(get_pixel_norm(picked.mean, p.preserve_color, work_profile), 2 * Unit)),
        Dec4(10), 100 * Unit)

\* log2f(x) on every float: -infinity at 0, NaN below
FloatLog2(x) == IF x < 0 THEN NaN ELSE IF x = 0 THEN NegInf ELSE log2f(x)

\* CLAMP(x, lo, hi) as the macro computes it, (x < lo) ? lo : (x > hi) ? hi : x:
\* both comparisons are false on a NaN, which passes through
FloatClamp(x, lo, hi) ==
  IF x = NaN THEN NaN ELSE IF x = NegInf THEN lo ELSE IF x = PosInf THEN hi ELSE CLAMP(x, lo, hi)

PickedEVmin(p, picked, work_profile) ==
  LET black == get_pixel_norm(picked.min, p.preserve_color, work_profile)
      EVmin == FloatClamp(FloatLog2(Div(black, Div(p.grey_point_source, 100 * Unit))),
                          -16 * Unit, -Unit)
  IN  fmaxf(WithSecurity(EVmin, p), -16 * Unit)

PickedEVmax(p, picked, work_profile) ==
  LET white == get_pixel_norm(picked.max, p.preserve_color, work_profile)
      EVmax == FloatClamp(FloatLog2(Div(white, Div(p.grey_point_source, 100 * Unit))),
                          Unit, 16 * Unit)
  IN  WithSecurity(EVmax, p)

apply_auto_grey(g, picked, work_profile) ==
  IF ResetGuard(g) THEN g
  ELSE LET g1 == GreyShift([g EXCEPT !.p.grey_point_source = PickedGrey(g.p, picked, work_profile)],
                           g.p.grey_point_source)
           g2 == UpdateWidgets(HardnessAlways(g1),
                               <<"grey_point_source", "black_point_source",
                                 "white_point_source", "output_power">>)
       IN  dt_dev_add_history_item(g2)

apply_auto_black(g, picked, work_profile) ==
  IF ResetGuard(g) THEN g
  ELSE LET g1 == [g EXCEPT !.p.black_point_source = PickedEVmin(g.p, picked, work_profile)]
           g2 == UpdateWidgets(HardnessAlways(g1), <<"black_point_source", "output_power">>)
       IN  dt_dev_add_history_item(g2)

apply_auto_white_point_source(g, picked, work_profile) ==
  IF ResetGuard(g) THEN g
  ELSE LET g1 == [g EXCEPT !.p.white_point_source = PickedEVmax(g.p, picked, work_profile)]
           g2 == UpdateWidgets(HardnessAlways(g1), <<"white_point_source", "output_power">>)
       IN  dt_dev_add_history_item(g2)

\* apply_autotune begins without the test of darktable.gui->reset
apply_autotune(g, picked, work_profile) ==
  LET g1 == [g EXCEPT !.p.grey_point_source = PickedGrey(g.p, picked, work_profile)]
      g2 == [g1 EXCEPT !.p.black_point_source = PickedEVmin(g1.p, picked, work_profile),
                       !.p.white_point_source = PickedEVmax(g1.p, picked, work_profile)]
      g3 == UpdateWidgets(HardnessAlways(g2),
                          <<"grey_point_source", "black_point_source",
                            "white_point_source", "output_power">>)
  IN  dt_dev_add_history_item(g3)

\* _iop_color_picker_get_set(self, button): the picker of the button becomes
\* the current one; already_selected is the return value
\* DT_COLOR_PICKER_ALREADY_SELECTED, given when it was the current one before
PickerOfButton ==
  [grey_point_source |-> DT_PICKPROFLOG_GREY_POINT,
   black_point_source |-> DT_PICKPROFLOG_BLACK_POINT,
   white_point_source |-> DT_PICKPROFLOG_WHITE_POINT,
   auto_button |-> DT_PICKPROFLOG_AUTOTUNE]

_iop_color_picker_get_set(g, button) ==
  [g EXCEPT !.picker = PickerOfButton[button],
            !.already_selected = (g.picker = PickerOfButton[button])]

_iop_color_picker_apply(g, picked, work_profile) ==
  CASE g.picker = DT_PICKPROFLOG_GREY_POINT -> apply_auto_grey(g, picked, work_profile)
    [] g.picker = DT_PICKPROFLOG_BLACK_POINT -> apply_auto_black(g, picked, work_profile)
    [] g.picker = DT_PICKPROFLOG_WHITE_POINT ->
         apply_auto_white_point_source(g, picked, work_profile)
    [] g.picker = DT_PICKPROFLOG_AUTOTUNE -> apply_autotune(g, picked, work_profile)
    [] OTHER -> g

\* ---- commit_params on the parameters of the GUI
\* the divisors of commit_params, of dt_iop_filmic_rgb_compute_spline and of
\* the log encoders that are the dynamic range white_source - black_source
CommitDivisors(p) ==
  LET dynamic_range == p.white_point_source - p.black_point_source
  IN  [commit_grey_log |-> dynamic_range,
       spline_grey_log |-> dynamic_range,
       toe_log |-> dynamic_range,
       shoulder_log |-> dynamic_range,
       coeff |-> dynamic_range,
       log_tonemapping |-> dynamic_range]

\* ---- the GUI as a state machine
\* the handlers run on one thread, each to its end; between two of them the
\* framework raises and lowers darktable.gui->reset around its own updates.
\* g.steps counts the handlers run, MaxSteps at most
MaxSteps == 3
MaxReset == 1

\* parameter sets of the GUI: the defaults, and a custom grey of 25 % with a
\* white point at +2 EV, a black point at -2 EV and a manual hardness
GuiParamSets ==
  { DefaultParams,
    [DefaultParams EXCEPT !.grey_point_source = 25 * Unit, !.white_point_source = 2 * Unit,
                          !.black_point_source = -2 * Unit, !.custom_grey = TRUE,
                          !.auto_hardness = FALSE, !.output_power = 4 * Unit] }

\* the values the user moves the sliders to
GreySliderValues == {100 * Unit}
WhiteSliderValues == {4 * Unit}
BlackSliderValues == {-8 * Unit}
SecuritySliderValues == {50 * Unit}
HardnessSliderValues == {2 * Unit}

\* the plain callbacks the user triggers, with the value of the widget: a
\* slider that resets the picker, one that does not, a combobox and a toggle
PlainValues ==
  [contrast |-> Unit, reconstruct_threshold |-> Unit,
   preserve_color |-> DT_FILMIC_METHOD_MAX_RGB, high_quality_reconstruction |-> TRUE]

\* self->picked_color, picked_color_min and picked_color_max of the picker's
\* area: a patch from 1/64 to 2 around the grey, and a flat patch at 1/2
PickedColours ==
  { [mean |-> <<Dec4(1845), Dec4(1845), Dec4(1845)>>,
     min |-> <<Unit \div 64, Unit \div 64, Unit \div 64>>,
     max |-> <<2 * Unit, 2 * Unit, 2 * Unit>>],
    [mean |-> <<Unit \div 2, Unit \div 2, Unit \div 2>>,
     min |-> <<Unit \div 2, Unit \div 2, Unit \div 2>>,
     max |-> <<Unit \div 2, Unit \div 2, Unit \div 2>>] }

GuiState(p) ==
  [op |-> "gui_init", p |-> p, reset |-> 0, picker |-> DT_PICKPROFLOG_NONE,
   already_selected |-> FALSE, history |-> 0, show_mask |-> FALSE,
   reentered |-> FALSE, divisors |-> NULL, steps |-> 0]

InitGui ==
  /\ pc = "gui"
  /\ mem = [b \in BufferNames |-> NULL]
  /\ env = Env(4, TRUE, FALSE, FALSE, TRUE)
  /\ data = commit_params(DefaultParams)
  /\ loc = LocInit
  /\ rh = RhIdle
  /\ obs = ObsInit
  /\ par = ParIdle
  /\ curve = CurveIdle
  /\ call = CallIdle
  /\ \E p \in GuiParamSets : gui = GuiState(p)

\* the GUI waits for an event
GuiReady == pc = "gui" /\ gui.steps < MaxSteps

\* the handler named op has run and left the GUI as g
Handled(op, g) == [g EXCEPT !.op = op, !.steps = @ + 1]

GreyPointSourceCallback ==
  /\ GuiReady
  /\ \E v \in GreySliderValues :
       gui' = Handled("grey_point_source_callback", grey_point_source_callback(gui, v))
  /\ UNCHANGED <<pc, mem, env, data, loc, rh, obs, par, curve, call>>

WhitePointSourceCallback ==
  /\ GuiReady
  /\ \E v \in WhiteSliderValues :
       gui' = Handled("white_point_source_callback", white_point_source_callback(gui, v))
  /\ UNCHANGED <<pc, mem, env, data, loc, rh, obs, par, curve, call>>

BlackPointSourceCallback ==
  /\ GuiReady
  /\ \E v \in BlackSliderValues :
       gui' = Handled("black_point_source_callback", black_point_source_callback(gui, v))
  /\ UNCHANGED <<pc, mem, env, data, loc, rh, obs, par, curve, call>>

SecurityThresholdCallback ==
  /\ GuiReady
  /\ \E v \in SecuritySliderValues :
       gui' = Handled("security_threshold_callback", security_threshold_callback(gui, v))
  /\ UNCHANGED <<pc, mem, env, data, loc, rh, obs, par, curve, call>>

OutputPowerCallback ==
  /\ GuiReady
  /\ \E v \in HardnessSliderValues :
       gui' = Handled("output_power_callback", output_power_callback(gui, v))
  /\ UNCHANGED <<pc, mem, env, data, loc, rh, obs, par, curve, call>>

PlainCallback ==
  /\ GuiReady
  /\ \E field \in DOMAIN PlainValues :
       gui' = Handled("plain_callback", plain_callback(gui, field, PlainValues[field]))
  /\ UNCHANGED <<pc, mem, env, data, loc, rh, obs, par, curve, call>>

ShowMaskCallback ==
  /\ GuiReady
  /\ gui' = Handled("show_mask_callback", show_mask_callback(gui))
  /\ UNCHANGED <<pc, mem, env, data, loc, rh, obs, par, curve, call>>

CustomGreyCallback ==
  /\ GuiReady
  /\ \E v \in BOOLEAN :
       gui' = Handled("custom_grey_callback", custom_grey_callback(gui, v))
  /\ UNCHANGED <<pc, mem, env, data, loc, rh, obs, par, curve, call>>

AutoHardnessCallback ==
  /\ GuiReady
  /\ \E v \in BOOLEAN :
       gui' = Handled("auto_hardness_callback", auto_hardness_callback(gui, v))
  /\ UNCHANGED <<pc, mem, env, data, loc, rh, obs, par, curve, call>>

ColorPickerGetSet ==
  /\ GuiReady
  /\ \E button \in DOMAIN PickerOfButton :
       gui' = Handled("_iop_color_picker_get_set", _iop_color_picker_get_set(gui, button))
  /\ UNCHANGED <<pc, mem, env, data, loc, rh, obs, par, curve, call>>

ColorPickerApply ==
  /\ GuiReady
  /\ \E picked \in PickedColours :
       gui' = Handled("_iop_color_picker_apply", _iop_color_picker_apply(gui, picked, env.work_profile))
  /\ UNCHANGED <<pc, mem, env, data, loc, rh, obs, par, curve, call>>

\* the framework raises darktable.gui->reset before its own widget updates ...
GuiResetEnter ==
  /\ GuiReady
  /\ gui.reset < MaxReset
  /\ gui' = Handled("reset_enter", [gui EXCEPT !.reset = @ + 1])
  /\ UNCHANGED <<pc, mem, env, data, loc, rh, obs, par, curve, call>>

\* ... and lowers it after them
GuiResetLeave ==
  /\ GuiReady
  /\ gui.reset > 0
  /\ gui' = Handled("reset_leave", [gui EXCEPT !.reset = @ - 1])
  /\ UNCHANGED <<pc, mem, env, data, loc, rh, obs, par, curve, call>>

\* the pipeline commits the parameters of the GUI
GuiCommit ==
  /\ GuiReady
  /\ gui' = Handled("commit_params", [gui EXCEPT !.divisors = CommitDivisors(gui.p)])
  /\ UNCHANGED <<pc, mem, env, data, loc, rh, obs, par, curve, call>>

NextGui ==
  \/ GreyPointSourceCallback \/ WhitePointSourceCallback \/ BlackPointSourceCallback
  \/ SecurityThresholdCallback \/ OutputPowerCallback \/ PlainCallback
  \/ ShowMaskCallback \/ CustomGreyCallback \/ AutoHardnessCallback
  \/ ColorPickerGetSet \/ ColorPickerApply \/ GuiResetEnter \/ GuiResetLeave
  \/ GuiCommit

SpecGui == InitGui /\ [][NextGui]_vars

\* ============================================================ properties
\* the sigmoid argument of pixel p as the documentation states it:
\* feather - euclidean_norm * feather / threshold
EuclideanNorm(p) ==
  sqrtf(sqf(mem["ivoid"][p * ch]) + sqf(mem["ivoid"][p * ch + 1]) + sqf(mem["ivoid"][p * ch + 2]))

SigmoidArgument(p) ==
  data.reconstruct_feather
    - Mul(EuclideanNorm(p), Div(data.reconstruct_feather, data.reconstruct_threshold))

\* the number of pixels whose sigmoid argument is strictly below 4
QualifyingPixels == Cardinality({p \in Pixels(Width, Height) : SigmoidArgument(p) < 4 * Unit})

\* the render ran exactly one tone kernel and it read the original input
OneKernelOnInput == Len(obs.kernels) = 1 /\ obs.kernel_in = "ivoid"

C2_FailedPassFallsBackToInput ==
  obs.pass1_failed =>
    /\ pc # "crashed"
    /\ obs.rh_calls = 1
    /\ ~rh.success \/ pc \notin {"rh_free", "pass1_done"}
    /\ ~loc.success_1
    /\ loc.in = "ivoid"
    /\ pc \notin {"rh_init", "rh_scale", "alloc_ratios", "compute_ratios"}
    /\ Len(obs.kernels) <= 1
    /\ (pc \in {"free_reconstructed", "alpha_copy", "done"} => OneKernelOnInput)

\* C2 witness: a finished render whose first pass failed to allocate
C2_Witness == pc = "done" /\ obs.pass1_failed /\ OneKernelOnInput

\* C3, as stated: after a failed allocation of the mask nothing is stored or
\* read through the missing buffer, the render goes on, the reconstruction is
\* skipped and the finished render has run the tone kernel on the original input.
C3_MaskFailureNonFatal ==
  obs.mask_alloc = "failed" =>
    /\ obs.null_stores = 0
    /\ pc # "crashed"
    /\ obs.rh_calls = 0
    /\ (pc = "done" => OneKernelOnInput)

\* C4: with piece->colors other than 4 the render allocates nothing, computes
\* no mask, calls no reconstruction, runs no kernel and no alpha copy, and
\* every element of the output buffer keeps the value it had before the call.
C4_NotFourChannelsNoProcessing ==
  env.colors # 4 =>
    /\ pc \in {"process", "done"}
    /\ obs = ObsInit
    /\ mem["ovoid"] = OutBefore
    /\ \A b \in BufferNames \ {"ivoid", "ovoid"} : mem[b] = NULL

\* C4 witness: a render of a 3-channel input that has returned
C4_Witness == pc = "done" /\ env.colors # 4

\* the mask preview is requested and the mask was allocated
PreviewRequested ==
  env.gui_attached /\ env.pipe_full /\ env.show_mask /\ obs.mask_alloc = "ok"

\* the clip-mask weight of pixel p
ClipWeight(p) == MaskWeight(MaskArgument(mem["ivoid"], Normalize(data), data.reconstruct_feather, p))

\* C5: when the mask preview is requested, once the mask is computed the
\* render returns at the preview: all 4 channels of every output pixel hold
\* that pixel's clip-mask weight, and no reconstruction, tone kernel or alpha
\* copy has run, whatever the number of clipped pixels.
C5_MaskPreviewShortCircuits ==
  (PreviewRequested /\ pc \notin {"mask_clipped_pixels", "preview"}) =>
    /\ pc = "done"
    /\ obs.displayed
    /\ \A k \in DOMAIN mem["ovoid"] : mem["ovoid"][k] = ClipWeight(k \div ch)
    /\ obs.rh_calls = 0
    /\ obs.kernels = <<>>
    /\ ~obs.alpha_copied
    /\ obs.reconstructed_alloc = "none"

\* C5 witness: a preview of an image with at least 10 clipped pixels
C5_Witness == PreviewRequested /\ pc = "done" /\ obs.displayed /\ QualifyingPixels >= 10

\* the stages of one scale, in the order of the loop body
ScaleStages == <<"blur_v", "blur_h", "detail", "blur_v", "blur_h", "reconstruct">>

\* the event of stage j (1 .. 6) of scale s in the log of the running call
ScaleEvent(s, j) == rh.events[1 + 6 * s + j]

\* the scales the log has entered
LoggedScales == {s \in 0 .. MAX_NUM_SCALES : 1 + 6 * s + 1 <= Len(rh.events)}

\* C7: the stages of reconstruct_highlights run scale after scale, s = 0, 1, ...
\* in order; the detail input of scale 0 is the input of the pass and that of
\* every scale s >= 1 is the low-frequency buffer scale s - 1 wrote; within a
\* scale the vertical blur into temp comes before the horizontal blur reads
\* temp; a pass that allocated its buffers returns after all its scales.
C7_ScalesInOrderChained ==
  /\ \A i \in 2 .. Len(rh.events) :
       /\ rh.events[i].s = (i - 2) \div 6
       /\ rh.events[i].op = ScaleStages[((i - 2) % 6) + 1]
       /\ rh.events[i].s < rh.scales
  /\ Len(rh.events) >= 1 => rh.events[1].op = "init"
  /\ \A s \in LoggedScales :
       /\ ScaleEvent(s, 1).src = (IF s = 0 THEN rh.in ELSE ScaleEvent(s - 1, 2).dst)
       /\ ScaleEvent(s, 1).dst = "temp"
       /\ Len(rh.events) >= 1 + 6 * s + 2 =>
            /\ ScaleEvent(s, 2).src = "temp"
            /\ ScaleEvent(s, 2).dst # ScaleEvent(s, 1).src
       /\ Len(rh.events) >= 1 + 6 * s + 3 =>
            /\ ScaleEvent(s, 3).src = ScaleEvent(s, 1).src
       /\ Len(rh.events) >= 1 + 6 * s + 6 =>
            /\ ScaleEvent(s, 6).src = ScaleEvent(s, 2).dst
  /\ (pc = rh.ret /\ rh.success) => Len(rh.events) = 1 + 6 * rh.scales

\* C7 witness: a pass of two scales that has returned
C7_Witness ==
  pc = rh.ret /\ rh.success /\ rh.scales >= 2 /\ Len(rh.events) = 1 + 6 * rh.scales

\* C6: when every value of the mask is exactly 0, from init_reconstruct on and
\* when reconstruct_highlights has completed, every element of the accumulator
\* equals the corresponding element of the input of the pass, for either
\* variant, any number of scales and any weights.
C6_ZeroMaskLeavesInput ==
  ((\A p \in DOMAIN mem["mask"] : mem["mask"][p] = 0) /\ rh.events # <<>>) =>
    mem["reconstructed"] = mem[rh.in]

\* C6 witness: a completed pass of two scales of the ratios variant on a mask of zeros
C6_Witness ==
  /\ pc = "done" /\ rh.success /\ rh.scales >= 2 /\ rh.variant = 1
  /\ Len(rh.events) = 1 + 6 * rh.scales
  /\ \A p \in DOMAIN mem["mask"] : mem["mask"][p] = 0

\* the pixel a slot of a buffer belongs to
SlotPixel(name, k) == IF name \in OneChannel THEN k ELSE k \div ch

\* the number of pixels of the stage's input whose sigmoid argument is below 4
ParQualifying ==
  Cardinality({p \in Pixels(ParWidth, ParHeight) :
                 MaskArgument(par.start["ivoid"], Normalize(data), data.reconstruct_feather, p)
                   < 4 * Unit})

\* C8: in every data-parallel stage, whatever iterations have run and in
\* whatever order, only buffers the stage writes have changed and in them only
\* the slots of the pixels whose iteration has run (an iteration writes the
\* slots of its own pixel only); no stage writes a buffer it reads at the
\* indices of other pixels; and when all iterations have run the buffers are
\* what the sequential loop leaves and the clipped count is the number of
\* qualifying pixels.
C8_StagesOrderIndependent ==
  par.stage \in ParStages =>
    /\ StageWrites(par.stage, StageBuffers(par.stage))
         \cap StageNeighbourReads(par.stage, StageBuffers(par.stage)) = {}
    /\ \A b \in BufferNames : \A k \in DOMAIN par.bufs[b] :
         par.bufs[b][k] # par.start[b][k] =>
           /\ b \in StageWrites(par.stage, StageBuffers(par.stage))
           /\ SlotPixel(b, k) \notin par.todo
    /\ par.todo = {} =>
         /\ par.bufs = ParSequential(par.stage, StageBuffers(par.stage), par.start, data, par.seed)
         /\ par.stage = "mask" => par.clipped = ParQualifying

\* C8 witness: the horizontal blur of scale 1 joined after all its iterations,
\* its output changed
C8_Witness ==
  /\ pc = "par_done" /\ par.stage = "blur_LF_h" /\ par.todo = {} /\ par.seed = 1
  /\ par.bufs["LF_odd"] # par.start["LF_odd"]

\* the tolerance of a comparison of floats, 2^-10: above the rounding of the
\* arithmetic of the model, below the effects looked for
GreyTolerance == Unit \div 1024
NodeTolerance == Unit \div 1024

Near(a, b, tol) == Abs(a - b) <= tol

\* C9: with the default parameters a pixel whose norm is the source grey is
\* log-encoded to the abscissa of the grey node, which lies on the central
\* segment; the curve returns the ordinate of the grey node there, and after
\* the display power the norm, and the norm of the output pixel, is 18.45 %.
C9_GreyPixelStaysGrey ==
  (curve.p = DefaultParams /\ curve.grey # NULL) =>
    /\ Near(curve.grey.norm_in, Dec4(1845), GreyTolerance)
    /\ Near(curve.grey.norm_log, data.spline.x[2], GreyTolerance)
    /\ data.spline.x[1] <= data.spline.x[2] /\ data.spline.x[2] <= data.spline.x[3]
    /\ SplineSegment(curve.grey.norm_log, data.spline) = 2
    /\ SplineSegment(data.spline.x[2], data.spline) = 2
    /\ Near(curve.grey.curved, data.spline.y[2], GreyTolerance)
    /\ Near(curve.grey.norm_out, Dec4(1845), GreyTolerance)
    /\ Near(get_pixel_norm(curve.grey.pix_out, DT_FILMIC_METHOD_POWER_NORM, TRUE),
            Dec4(1845), GreyTolerance)

\* C9 witness: the default parameters committed and a grey pixel toned
C9_Witness ==
  /\ curve.p = DefaultParams /\ curve.grey # NULL
  /\ curve.grey.pix_in = <<Dec4(1845), Dec4(1845), Dec4(1845)>>
  /\ data.version = DT_FILMIC_COLORSCIENCE_V2
  /\ data.preserve_color = DT_FILMIC_METHOD_POWER_NORM

\* C10, as stated: for every parameter set, the curve evaluated at the toe,
\* grey and shoulder abscissas returns the ordinates of these nodes.
C10_NodeFidelity ==
  \A i \in DOMAIN curve.node : Near(curve.node[i], data.spline.y[i], NodeTolerance)

\* C10 restricted to the curves whose nodes are in order, x[1] <= x[2] <= x[3]
C10_OrderedNodeFidelity ==
  (pc = "curve_ready" /\ data.spline.x[1] <= data.spline.x[2]
                      /\ data.spline.x[2] <= data.spline.x[3]) =>
    \A i \in DOMAIN curve.node : Near(curve.node[i], data.spline.y[i], NodeTolerance)

\* the residual the fixed point elimination leaves on a node equation
EdgeTolerance == Unit \div 64

\* units in the last place lost by one multiplication and one addition
RoundingUlps == 2

C12_ContrastNeverLowered ==
  data # NULL =>
    LET grey_display == CommitGreyDisplay(curve.p)
        grey_log == CommitGreyLog(curve.p)
        least == Div(grey_display, grey_log)
    IN  /\ data.contrast >= curve.p.contrast
        /\ curve.p.contrast < least =>
              Near(data.contrast, Mul(Dec4(10001), least), RoundingUlps)
        /\ curve.p.contrast >= least => data.contrast = curve.p.contrast
        /\ grey_display - Mul(data.contrast, grey_log) <= 0

\* C12 witness: a contrast of 0.5 committed above 1
C12_Witness ==
  /\ data # NULL
  /\ curve.p.contrast = Dec4(5000)
  /\ data.contrast > Unit

\* C12 second witness: a contrast of 1.5 committed as given
C12_WitnessKept ==
  /\ data # NULL
  /\ curve.p.contrast = Dec4(15000)
  /\ data.contrast = curve.p.contrast

\* the smallest and the largest of the three LF channels of pixel p at the
\* scale being accumulated
MinLF(p) ==
  LET LF == mem[LFBuffer(rh.s)]
  IN  fminf(fminf(LF[p * ch], LF[p * ch + 1]), LF[p * ch + 2])
MaxLF(p) ==
  LET LF == mem[LFBuffer(rh.s)]
  IN  fmaxf(fmaxf(LF[p * ch], LF[p * ch + 1]), LF[p * ch + 2])

\* the contribution of a scale to channel c of pixel p when the grey residual
\* is (1 - grey_vs_color) * grey_lf
ScaleContribution(grey_lf, p, c) ==
  LET w == Weights(data)
      HF == mem["HF_RGB"]
      LF == mem[LFBuffer(rh.s)]
      gamma_comp == Unit - w.gamma
      beta_comp == Unit - w.beta
      grey_HF == Mul(beta_comp, GreyDetails(HF, p, gamma_comp) + Mul(w.gamma, mem["HF_grey"][p]))
      color_details == Mul(Mul(HF[p * ch + c], w.beta), gamma_comp)
      grey_residual == Mul(beta_comp, grey_lf)
      color_residual == Mul(LF[p * ch + c], w.beta)
  IN  Mul(mem["mask"][p],
          Mul(w.delta, grey_HF + color_details)
            + Div(grey_residual + color_residual, rh.scales * Unit))

\* an accumulation step
Accumulates == pc = "rh_reconstruct" /\ pc' = "rh_scale"

AfterPasses == {"select_input", "free_mask", "kernel", "free_reconstructed", "alpha_copy", "done"}

\* the second call of reconstruct_highlights is about to run
SecondPassStarts == pc = "rh_alloc" /\ rh.ret = "pass2_done"

\* the norm of pixel p of the accumulator of the first pass, floored at 2^-16
FirstPassNorm(p) ==
  fmaxf(get_pixel_norm(PixelAt(mem["reconstructed"], p), data.preserve_color, env.work_profile),
        NormFloor)

\* what the second pass is handed: the ratios of the first pass accumulator to
\* the stored norms, as its input
SecondPassInput ==
  /\ rh.in = "ratios"
  /\ rh.variant = 1
  /\ \A p \in Pixels(Width, Height) :
        /\ mem["norms"][p] = FirstPassNorm(p)
        /\ \A c \in 0 .. 2 :
              mem["ratios"][p * ch + c] = Div(mem["reconstructed"][p * ch + c], mem["norms"][p])

\* the step after the second pass: the accumulator times the stored norm when
\* the pass succeeded, the accumulator as it was when it failed
RestoredIffSucceeded ==
  pc = "pass2_done" =>
    \A p \in Pixels(Width, Height), c \in 0 .. 2 :
      mem'["reconstructed"][p * ch + c] =
        IF rh.success THEN Mul(mem["reconstructed"][p * ch + c], mem["norms"][p])
                      ELSE mem["reconstructed"][p * ch + c]

\* C14: the second pass runs iff the high quality flag is set, the first pass
\* succeeded and norms and ratios were both allocated; its input is the
\* per-channel ratio of the first pass accumulator to the norm of the pixel,
\* floored at 2^-16; the norms stay as stored during the pass, and the
\* accumulator is multiplied by them exactly when the second pass succeeded,
\* before any tone kernel has run, and the kernel then reads the accumulator.
C14_SecondPassProtocol ==
  /\ [](/\ obs.ratios_alloc # "none" => data.high_quality_reconstruction /\ loc.success_1
        /\ pc \in AfterPasses =>
              /\ (obs.rh_calls = 2) <=> (/\ data.high_quality_reconstruction
                                        /\ loc.success_1
                                        /\ obs.ratios_alloc = "ok")
              /\ data.high_quality_reconstruction /\ loc.success_1 => obs.ratios_alloc # "none"
        /\ SecondPassStarts => SecondPassInput
        /\ pc = "pass2_done" => obs.kernels = <<>>
        /\ pc = "kernel" /\ obs.rh_calls = 2 => loc.in = "reconstructed")
  /\ [][/\ RestoredIffSucceeded
        /\ rh.ret = "pass2_done" => mem'["norms"] = mem["norms"]]_vars

\* C14 witness: the second pass has succeeded and the accumulator was
\* multiplied by norms that are not all 1
C14_Witness ==
  /\ pc = "free_ratios"
  /\ obs.rh_calls = 2
  /\ loc.success_2
  /\ \E p \in Pixels(Width, Height) : mem["norms"][p] # Unit /\ mem["reconstructed"][p * ch] # 0

\* a call of reconstruct_highlights one of whose allocations failed, about to
\* free what it got and return
PassAborted == pc = "rh_free" /\ ~rh.success

\* C15: when a scratch-buffer allocation fails in reconstruct_highlights the
\* pass aborts without having touched the accumulator: the allocations and
\* their test change nothing in it, init_reconstruct has not run and no scale
\* was added, and freeing the scratch buffers leaves it as it is.
C15_AbortLeavesAccumulator ==
  /\ [](PassAborted => rh.events = <<>>)
  /\ [][/\ pc = "rh_alloc" => mem'["reconstructed"] = mem["reconstructed"]
        /\ PassAborted => mem'["reconstructed"] = mem["reconstructed"]]_vars

\* C15 as stated: when a scratch-buffer allocation fails the accumulator has
\* been set to input * (1 - mask), with no scale contribution added.
C15_AbortLeavesInitialised ==
  PassAborted =>
    /\ \A k \in DOMAIN mem["reconstructed"] :
          mem["reconstructed"][k] = Mul(mem[rh.in][k], Unit - mem["mask"][k \div ch])
    /\ \A e \in 1 .. Len(rh.events) : rh.events[e].op # "reconstruct"

\* C15 witness: a first pass aborted with the accumulator still as allocated
C15_Witness ==
  /\ PassAborted
  /\ rh.variant = 0
  /\ \E fill \in Junk : mem["reconstructed"] = Fresh(Width * Height * ch, fill)

\* C15 second witness: a second pass aborted with the accumulator holding the
\* result of the first
C15_WitnessSecondPass ==
  /\ PassAborted
  /\ rh.variant = 1
  /\ \A fill \in Junk : mem["reconstructed"] # Fresh(Width * Height * ch, fill)

\* the alpha channel of a 4-channel buffer, pixel by pixel
AlphaOf(buf) == [p \in Pixels(Width, Height) |-> buf[p * ch + 3]]

\* C16: in a render that is not the mask preview, with the display-mask flag
\* of the pipe set, the alpha of every output pixel is the alpha of the same
\* pixel of the input buffer of the caller, whether or not the reconstruction
\* ran; the tone kernel stores channels 0 .. 2 only and leaves the fourth
\* channel of the output as it was.
C16_AlphaFromCallerInput ==
  /\ []((pc = "done" /\ obs.alpha_copied /\ ~obs.displayed) =>
          AlphaOf(mem["ovoid"]) = AlphaOf(mem["ivoid"]))
  /\ [][pc = "kernel" => AlphaOf(mem'["ovoid"]) = AlphaOf(mem["ovoid"])]_vars

\* C16 witness: the kernel has read the reconstructed buffer and the alpha of
\* the output was copied
C16_Witness ==
  /\ pc = "done"
  /\ obs.alpha_copied
  /\ obs.kernel_in = "reconstructed"
  /\ AlphaOf(mem["ovoid"]) = AlphaOf(mem["ivoid"])
  /\ \E p, q \in Pixels(Width, Height) : mem["ivoid"][p * ch + 3] # mem["ivoid"][q * ch + 3]

\* the running pass has initialised the accumulator
AccumulatorInitialised == rh.events # <<>> /\ pc \in {"rh_scale", "rh_blur_LF_v", "rh_blur_LF_h",
                                                      "rh_detail", "rh_blur_HF_v", "rh_blur_HF_h",
                                                      "rh_reconstruct", "rh_free"}

\* C17: after init_reconstruct and after the accumulation of every scale the
\* fourth channel of every accumulator pixel equals the alpha of the
\* corresponding pixel of the input of the pass, for every mask value in [0, 1].
C17_AlphaUntouchedByReconstruction ==
  AccumulatorInitialised => AlphaOf(mem["reconstructed"]) = AlphaOf(mem[rh.in])

\* what the code does instead: init_reconstruct leaves alpha * (1 - mask) in
\* the fourth channel, and the accumulation of a scale leaves it as it is
C17_AlphaScaledByMask ==
  /\ [](AccumulatorInitialised =>
          \A p \in Pixels(Width, Height) :
            mem["reconstructed"][p * ch + 3] = Mul(mem[rh.in][p * ch + 3], Unit - mem["mask"][p]))
  /\ [][Accumulates => AlphaOf(mem'["reconstructed"]) = AlphaOf(mem["reconstructed"])]_vars

\* C18: get_scales returns an integer in 1 .. 12 for every region size and
\* zoom scale, also when 2 * size * scale / 20 - 1 is zero or negative, so
\* that the dilation 2^s of every scale s it makes the blur run at is at most
\* 2^11.
C18_ScalesWithinBounds ==
  call.fn = "get_scales" =>
    /\ call.result \in 1 .. 12
    /\ \A s \in 0 .. (call.result - 1) : Mult(s) <= 2 ^ 11

\* C18 witness: a region so small that the argument of the logarithm is not
\* positive
C18_Witness ==
  /\ call.fn = "get_scales"
  /\ 2 * call.size * call.scale[1] <= 20 * call.scale[2]
  /\ call.result >= 1

\* C18 second witness: a region so large that the logarithm is above 12
C18_WitnessLarge ==
  /\ call.fn = "get_scales"
  /\ 2 * call.size * call.scale[1] > (2 ^ 13 + 1) * 20 * call.scale[2]
  /\ call.result = 12

\* the channels of the recombined pixel ratios[c] * norm and the largest of them
Recombined(c) == Mul(call.ratios[c], call.norm_out)
LargestRecombined == fmaxf(fmaxf(Recombined(1), Recombined(2)), Recombined(3))

\* C19: for every input pixel, negative channels and channels far above white
\* included, and every norm method, filmic_chroma_v2 writes each of the three
\* output channels within [0, 1]: when the largest recombined channel exceeds
\* 1 every ratio is reduced by the excess, floored at 0, multiplied by the
\* curved norm again and clamped; otherwise the recombined channels are
\* written as they are and lie within [0, 1].
C19_ChromaV2WithinUnit ==
  call.fn = "filmic_chroma_v2" =>
    /\ \A c \in 1 .. 3 : call.result[c] >= 0 /\ call.result[c] <= Unit
    /\ LargestRecombined > Unit =>
          \A c \in 1 .. 3 :
            call.result[c] =
              Min(Unit, Max(0, Mul(Max(call.ratios[c] - (LargestRecombined - Unit), 0),
                                   call.norm_out)))
    /\ LargestRecombined <= Unit =>
          \A c \in 1 .. 3 : call.result[c] = Recombined(c)

\* C19 witness: a pixel with a negative channel and a channel far above white
\* whose largest recombined channel exceeds 1
C19_Witness ==
  /\ call.fn = "filmic_chroma_v2"
  /\ \E c \in 1 .. 3 : call.pixel[c] < 0
  /\ \E c \in 1 .. 3 : call.pixel[c] >= 16 * Unit
  /\ LargestRecombined > Unit
  /\ \E c \in 1 .. 3 : call.result[c] > 0

\* C19 second witness: an all-negative pixel, its norm floored at 2^-16
C19_WitnessNegative ==
  /\ call.fn = "filmic_chroma_v2"
  /\ \A c \in 1 .. 3 : call.pixel[c] < 0
  /\ call.norm = NormFloor

C20_WitnessNegativeMax ==
  /\ call.fn = "get_pixel_norm"
  /\ call.variant = DT_FILMIC_METHOD_MAX_RGB
  /\ call.result < 0

\* ---------------------------------------------------------------- C21
\* the parameters of the GUI have a zero dynamic range
ZeroDynamicRange == gui.p.white_point_source = gui.p.black_point_source

\* C21: a zero dynamic range (white_point_source = black_point_source) is
\* clamped away before it divides: when commit_params runs on such
\* parameters, none of the divisors of commit_params, of the spline setup and
\* of the log encoders is 0
C21_ZeroRangeNeverDivides ==
  (gui.op = "commit_params" /\ ZeroDynamicRange) =>
    \A f \in DOMAIN gui.divisors : gui.divisors[f] # 0

\* ---------------------------------------------------------------- C22
\* the kernel the claim names for the committed data: channel-split when the
\* chroma preservation is none, norm-preserving otherwise, v1 or v2 by version
NamedKernel ==
  IF data.preserve_color = DT_FILMIC_METHOD_NONE
    THEN (IF data.version = DT_FILMIC_COLORSCIENCE_V1 THEN "filmic_split_v1" ELSE "filmic_split_v2")
    ELSE (IF data.version = DT_FILMIC_COLORSCIENCE_V1 THEN "filmic_chroma_v1" ELSE "filmic_chroma_v2")

\* the three channels kernel name gives for the pixel pix
KernelOutput(name, pix) ==
  CASE name = "filmic_split_v1" -> filmic_split_v1_pixel(pix, data, env.work_profile)
    [] name = "filmic_split_v2" -> filmic_split_v2_pixel(pix, data, env.work_profile)
    [] name = "filmic_chroma_v1" ->
         filmic_chroma_v1_pixel(pix, data, env.work_profile, data.preserve_color)
    [] name = "filmic_chroma_v2" ->
         filmic_chroma_v2_pixel(pix, data, env.work_profile, data.preserve_color)

\* the render is past its tone kernel and was neither a mask preview nor
\* rejected for its channel count
PastKernel ==
  /\ pc \in {"free_reconstructed", "alpha_copy", "done"}
  /\ env.colors = 4
  /\ ~obs.displayed

C22_WitnessChroma ==
  /\ pc = "done"
  /\ PastKernel
  /\ obs.kernels = <<"filmic_chroma_v1">>
  /\ obs.kernel_in = "reconstructed"

\* ---------------------------------------------------------------- C23
\* a handler of the GUI rewrote output_power while auto_hardness was off
\* before and after it
HardnessRewritten ==
  /\ gui.op # "none"
  /\ ~gui.p.auto_hardness
  /\ ~gui'.p.auto_hardness
  /\ gui'.p.output_power # gui.p.output_power

\* C23: with auto-hardness disabled the hardness is under manual control:
\* whatever slider callbacks and picker applications (grey, black, white,
\* autotune) run, output_power changes only through the callback of the
\* hardness slider.
C23_HardnessManualWhenAutoOff ==
  [][HardnessRewritten => gui'.op = "output_power_callback"]_vars

\* what the callbacks alone keep: with auto-hardness disabled, a handler
\* that rewrites output_power is the hardness slider's callback or an
\* application of the picker
C23_OnlyPickerOverridesManual ==
  [][HardnessRewritten => gui'.op \in {"output_power_callback", "_iop_color_picker_apply"}]_vars

\* ---------------------------------------------------------------- C24
\* the interpolated high-frequency channel of pixel p that is largest, and
\* the one that is smallest, by absolute value
MaxAbsHF(p) ==
  LET HF == mem["HF_RGB"]
  IN  fmaxabsf(fmaxabsf(HF[p * ch], HF[p * ch + 1]), HF[p * ch + 2])
MinAbsHF(p) ==
  LET HF == mem["HF_RGB"]
  IN  fminabsf(fminabsf(HF[p * ch], HF[p * ch + 1]), HF[p * ch + 2])

\* the contribution of a scale to channel c of pixel p when the grey details
\* are (1 - structure_vs_texture) * grey_hf and the grey residual is
\* (1 - grey_vs_color) * grey_lf
ContributionOf(grey_hf, grey_lf, p, c) ==
  LET w == Weights(data)
      HF == mem["HF_RGB"]
      LF == mem[LFBuffer(rh.s)]
      gamma_comp == Unit - w.gamma
      beta_comp == Unit - w.beta
      grey_HF == Mul(beta_comp, Mul(gamma_comp, grey_hf) + Mul(w.gamma, mem["HF_grey"][p]))
      color_details == Mul(Mul(HF[p * ch + c], w.beta), gamma_comp)
      grey_residual == Mul(beta_comp, grey_lf)
      color_residual == Mul(LF[p * ch + c], w.beta)
  IN  Mul(mem["mask"][p],
          Mul(w.delta, grey_HF + color_details)
            + Div(grey_residual + color_residual, rh.scales * Unit))

\* the grey residual of the pass: the minimum of the LF channels in the RGB
\* pass, their maximum in the ratio pass
ResidualLF(p) == IF rh.variant = 0 THEN MinLF(p) ELSE MaxLF(p)

\* C24: in wavelets_reconstruct_ratios (variant 1) the grey details term is
\* built from the minimum-by-absolute-value of the three interpolated
\* high-frequency channels, where wavelets_reconstruct_RGB (variant 0) uses
\* their maximum-by-absolute-value.
C24_DetailsMinAbsInRatios ==
  [][Accumulates =>
       \A p \in Pixels(Width, Height), c \in 0 .. 2 :
         mem'["reconstructed"][p * ch + c] =
           mem["reconstructed"][p * ch + c]
             + ContributionOf(IF rh.variant = 0 THEN MaxAbsHF(p) ELSE MinAbsHF(p),
                              ResidualLF(p), p, c)]_vars

\* what the two functions compute: the grey details term is built from the
\* maximum-by-absolute-value of the high-frequency channels in both passes
C24_DetailsMaxAbsInBoth ==
  [][Accumulates =>
       \A p \in Pixels(Width, Height), c \in 0 .. 2 :
         mem'["reconstructed"][p * ch + c] =
           mem["reconstructed"][p * ch + c] + ContributionOf(MaxAbsHF(p), ResidualLF(p), p, c)]_vars


\* C25: after commit_params the slope of the central segment of the committed
\* spline, spline.M2[2], is the committed contrast d->contrast, for every
\* parameter set, those whose contrast commit_params raised included.
C25_SlopeIsCommittedContrast ==
  data # NULL => data.spline.M2[2] = data.contrast

\* what the code does: the slope is the contrast parameter clamped to
\* [0.1, 2] by compute_spline, whatever commit_params committed
C25_SlopeIsClampedParameter ==
  data # NULL => data.spline.M2[2] = CLAMP(curve.p.contrast, Dec4(1000), 2 * Unit)


\* the second pass was entered and could not complete: norms or ratios was
\* not allocated, or the second reconstruct_highlights returned failure
SecondPassFailed ==
  /\ pc \in {"free_ratios", "select_input", "free_mask", "kernel", "free_reconstructed"}
  /\ data.high_quality_reconstruction
  /\ loc.success_1
  /\ obs.ratios_alloc = "failed" \/ (obs.rh_calls = 2 /\ ~loc.success_2)

\* C26: when the second pass cannot complete, the accumulator still holds the
\* complete result of the first pass, neither initialised again from the
\* ratios nor multiplied by the norms, and the tone mapper reads that buffer:
\* the output is the kernel applied to the result of the first pass.
C26_FailedSecondPassKeepsFirst ==
  SecondPassFailed =>
    /\ mem["reconstructed"] = obs.pass1_result
    /\ pc \in {"free_mask", "kernel"} => loc.in = "reconstructed"
    /\ pc = "free_reconstructed" =>
         /\ obs.kernel_in = "reconstructed"
         /\ KernelName(data) # "none" =>
              mem["ovoid"] = KernelLoop(obs.pass1_result, OutBefore, data, env.work_profile, 0,
                                        KernelPixels(data, Width, RoiInHeight, Height))

\* C26 witness: the kernel has run after a second pass that aborted on a
\* scratch allocation, on a first-pass result with reconstructed pixels
C26_Witness ==
  /\ SecondPassFailed
  /\ pc = "free_reconstructed"
  /\ obs.ratios_alloc = "ok"
  /\ KernelName(data) # "none"
  /\ obs.pass1_result # mem["ivoid"]

\* C26 second witness: norms or ratios could not be allocated
C26_WitnessNoRatios ==
  /\ SecondPassFailed
  /\ pc = "free_reconstructed"
  /\ obs.ratios_alloc = "failed"
  /\ KernelName(data) # "none"


\* the positions inside reconstruct_highlights
RhPcs ==
  {"rh_alloc", "rh_init", "rh_scale", "rh_blur_LF_v", "rh_blur_LF_h", "rh_detail",
   "rh_blur_HF_v", "rh_blur_HF_h", "rh_reconstruct", "rh_free"}

\* the buffers a call of reconstruct_highlights may only read
ReadOnlyOf(in) == {in, "mask", "ivoid"}

\* C27: for every number of scales N in 1 .. 12 and every scale s < N, the
\* buffer read as detail and the buffer written as low-frequency output are
\* two buffers, and the low-frequency buffer is neither the input of the pass
\* nor the mask; no stage of a running call reads the buffer it writes or
\* writes the input of the pass or the mask, no step of the call changes
\* them, and no step of process changes the input buffer of the caller.
C27_NoBufferAliasing ==
  /\ [](\A N \in 1 .. MAX_NUM_SCALES : \A s \in 0 .. N - 1 :
          \A in \in {"ivoid", "ratios"} :
             /\ DetailBuffer(s, in) # LFBuffer(s)
             /\ LFBuffer(s) \notin ReadOnlyOf(in))
  /\ [](\A e \in 1 .. Len(rh.events) :
          /\ rh.events[e].src # rh.events[e].dst
          /\ rh.events[e].dst \notin ReadOnlyOf(rh.in))
  /\ [][/\ mem'["ivoid"] = mem["ivoid"]
        /\ pc \in RhPcs => \A b \in ReadOnlyOf(rh.in) : mem'[b] = mem[b]]_vars

\* C27 witness: the second scale of a second pass has written its
\* low-frequency buffer, the detail being the low-frequency buffer of the first
C27_Witness ==
  /\ pc = "rh_detail"
  /\ rh.variant = 1
  /\ rh.in = "ratios"
  /\ rh.s = 1
  /\ rh.events[Len(rh.events)] = Event("blur_h", 1, "temp", "LF_even")
  /\ DetailBuffer(rh.s, rh.in) = "LF_odd"
  /\ mem["LF_even"] # mem["LF_odd"]


\* C28: in both blur passes, for every line of 1 pixel or more, every dilation
\* mult = 2^s with s in 0 .. 11 and every output position, the five sampled
\* positions are inside the line. The unchecked path is taken only when
\* position - 2 * mult and position + 2 * mult are both inside, the wrapped
\* size - 2 * mult never letting it be taken, and on the checked path the
\* index that went through the unsigned wrap and the conversion to int is the
\* position pos + mult * (jj - 2) clamped to [0, size - 1].
C28_TapsInsideImage ==
  call.fn = "blur_taps" =>
    /\ \A jj \in 0 .. fsize - 1 :
         /\ call.taps[jj] \in 0 .. call.size - 1
         /\ call.taps[jj] = Max(0, Min(call.size - 1, call.pos + call.mult * (jj - 2)))
    /\ ~call.check =>
         /\ call.pos - 2 * call.mult \in 0 .. call.size - 1
         /\ call.pos + 2 * call.mult \in 0 .. call.size - 1
    /\ call.size < 2 * call.mult => call.check

\* C28 witness: the subtraction size - 2 * mult wraps, the checked path is
\* taken and taps are clamped at both ends of the line
C28_Witness ==
  /\ call.fn = "blur_taps"
  /\ call.size < 2 * call.mult
  /\ call.check
  /\ call.pos > 0
  /\ call.pos < call.size - 1
  /\ call.taps[0] = 0
  /\ call.taps[fsize - 1] = call.size - 1

\* C28 second witness: the unchecked path, at the widest dilation
C28_WitnessFast ==
  /\ call.fn = "blur_taps"
  /\ ~call.check
  /\ call.mult = 2 ^ (MAX_NUM_SCALES - 1)
  /\ call.taps[0] = call.pos - 2 * call.mult


\* the buffers process and reconstruct_highlights allocate
AllocNames == BufferNames \ {"ivoid", "ovoid"}

\* the buffers the step about to run reads or writes: the arguments of the
\* call it makes
UsedAt ==
  CASE pc = "mask_clipped_pixels" -> {"ivoid", "mask"}
    [] pc = "preview" ->
         IF env.gui_attached /\ env.pipe_full /\ mem["mask"] # NULL /\ env.show_mask
           THEN {"mask", "ovoid"} ELSE {}
    [] pc = "rh_init" -> {rh.in, "mask", "reconstructed"}
    [] pc = "rh_blur_LF_v" -> {DetailBuffer(rh.s, rh.in), "temp"}
    [] pc = "rh_blur_LF_h" -> {"temp", LFBuffer(rh.s)}
    [] pc = "rh_detail" -> {DetailBuffer(rh.s, rh.in), LFBuffer(rh.s), "HF_RGB", "HF_grey"}
    [] pc \in {"rh_blur_HF_v", "rh_blur_HF_h"} -> {"HF_RGB", "temp"}
    [] pc = "rh_reconstruct" -> {"HF_RGB", LFBuffer(rh.s), "HF_grey", "mask", "reconstructed"}
    [] pc = "compute_ratios" -> {"reconstructed", "norms", "ratios"}
    [] pc = "pass2_done" -> IF rh.success THEN {"reconstructed", "norms"} ELSE {}
    [] pc = "kernel" -> IF KernelName(data) # "none" THEN {loc.in, "ovoid"} ELSE {}
    [] pc = "alpha_copy" -> {"ivoid", "ovoid"}
    [] OTHER -> {}

\* C29: on every path through process and reconstruct_highlights each buffer
\* that was allocated is freed exactly once before the return: no pointer is
\* freed twice, nothing is live when process has returned nor any scratch
\* buffer when reconstruct_highlights has, and the frees are as many as the
\* successful allocations. No step reads or writes a freed buffer, and the
\* accumulator is freed only once the kernel has run.
C29_BuffersFreedOnce ==
  /\ obs.double_frees = 0
  /\ \A b \in obs.dangling : mem[b] = NULL
  /\ \A b \in UsedAt :
       /\ b \notin obs.dangling
       /\ mem[b] = NULL => b = "mask" /\ pc = "mask_clipped_pixels"
  /\ pc = "done" => Live(AllocNames) = 0 /\ obs.frees = obs.allocated
  /\ pc \in {"pass1_done", "pass2_done"} => Live(ScratchNames) = 0
  /\ "reconstructed" \in obs.dangling => pc \in {"alpha_copy", "done"}

\* C29 witness: process returned after two successful passes, the fourteen
\* buffers it and the two calls allocated all freed
C29_Witness ==
  /\ pc = "done"
  /\ obs.rh_calls = 2
  /\ loc.success_2
  /\ obs.kernels # <<>>
  /\ obs.allocated = 4 + 2 * Cardinality(ScratchNames)
  /\ obs.frees = obs.allocated
  /\ obs.dangling = {"mask", "reconstructed", "norms", "ratios"}

\* C29 second witness: the exit by the mask preview, the mask alone freed
C29_WitnessPreview ==
  /\ pc = "done"
  /\ obs.displayed
  /\ obs.allocated = 1
  /\ obs.frees = 1

\* C29 third witness: a second pass that failed on one scratch allocation
C29_WitnessSecondPassFailed ==
  /\ pc = "done"
  /\ obs.rh_calls = 2
  /\ loc.success_1
  /\ ~loc.success_2
  /\ obs.allocated = 3 + 2 * Cardinality(ScratchNames)
  /\ obs.frees = obs.allocated


\* ---------------------------------------------------------------- C30
\* the handlers that are a callback of a slider, combobox or toggle, or an
\* application of the colour picker
CallbackOps ==
  {"grey_point_source_callback", "white_point_source_callback", "black_point_source_callback",
   "security_threshold_callback", "output_power_callback", "plain_callback",
   "show_mask_callback", "custom_grey_callback", "auto_hardness_callback",
   "_iop_color_picker_apply"}

\* a callback or a picker application ran while darktable.gui->reset was set
RanUnderReset == gui.reset # 0 /\ gui'.op \in CallbackOps

\* C30: while the reset flag of the GUI is set, no slider, combobox or toggle
\* callback and no application of the picker (grey, black, white, autotune)
\* changes a field of the parameters or adds a history item; and every
\* handler that sets the flag to 1 around its widget updates leaves it at
\* the value it had on entry.
C30_ResetSuppressesHandlers ==
  [][/\ RanUnderReset => gui'.p = gui.p /\ gui'.history = gui.history
     /\ gui'.op \in CallbackOps => gui'.reset = gui.reset]_vars

\* what the guards give: the same for every handler but the application of
\* the autotune picker, which has no guard; the flag is restored by all
C30_AllButAutotuneSuppressed ==
  [][/\ (RanUnderReset /\ ~(gui'.op = "_iop_color_picker_apply"
                             /\ gui.picker = DT_PICKPROFLOG_AUTOTUNE))
          => gui'.p = gui.p /\ gui'.history = gui.history
     /\ gui'.op \in CallbackOps => gui'.reset = gui.reset /\ ~gui'.reentered]_vars

====
